---- MODULE Spec2Model ----
(***************************************************************************)
(* A model of vtds_base: the configuration merge (merge_configs), the      *)
(* inheritance expansion (expand_inheritance) and the layer stack          *)
(* (VTDSStack) with its initialize() and phase sweeps.                     *)
(*                                                                         *)
(* Three specifications share the variables below:                         *)
(*   SpecMerge   merge_configs applied to every pair of bounded trees      *)
(*   SpecExpand  expand_inheritance applied to bounded collections         *)
(*   Spec        the VTDSStack object driven by its callers                *)
(* Each keeps the variables of the other two at their idle values.         *)
(***************************************************************************)
EXTENDS Integers, FiniteSets, Sequences, TLC

VARIABLES
    \* ---- merge_configs call (SpecMerge)
    m_pc,          \* "idle" | "ready" | "done"
    base,          \* argument 'base'
    overlay,       \* argument 'overlay'
    merged,        \* value returned by merge_configs(base, overlay)
    heap,          \* the dict objects in memory: address -> (key -> value)
    heap_in,       \* history: the heap as it was when the call was made
    refs,          \* the objects that base, overlay and the result are
    key_order,     \* the order in which the items of a dict are iterated
    \* ---- three trees merged in both groupings (SpecAssoc)
    a_pc,          \* "idle" | "ready" | "done"
    third,         \* the tree merged after base and overlay
    left_first,    \* merge_configs(merge_configs(base, overlay), third)
    right_first,   \* merge_configs(base, merge_configs(overlay, third))
    \* ---- expand_inheritance call (SpecExpand)
    e_pc,          \* "idle" | "ready" | "call" | "return" | "done"
    configs,       \* the collection 'configs' (a Python dict, mutable)
    configs_in,    \* history: 'configs' as it was when the call was made
    config_name,   \* argument 'config_name' of the last call
    expanded,      \* outcome of the last call: a tree or the error raised
    e_ancestry,    \* the list 'ancestry' that the recursion shares
    e_depth,       \* number of expand_inheritance frames on the call stack
    \* ---- VTDSStack object (Spec)
    pc,            \* "off" | "idle" | "initialize" | "sweep"
    layers,        \* slot -> TRUE when the slot holds a Layer object
    layer_api,     \* slot -> Layer.layer_api (NoApi or the LayerAPI object)
    config,        \* VTDSStack.config
    dirs,          \* build sub-directories that exist on disk
    frame,         \* locals of the running initialize() or sweep
    active,        \* slot whose phase method is executing, or NoSlot
    calls,         \* layer phase methods invoked by the current/last call
    outcome,       \* what the last finished stack call returned or raised
    initialized,   \* history: TRUE once an initialize() call has completed
    init_status,   \* history: how the most recent initialize() call stands:
                   \* "none" | "running" | "failed" | "completed"
    base_config    \* slot -> what the layer's BaseConfig object reads

mergeVars  == <<m_pc, base, overlay, merged, heap, heap_in, refs, key_order,
                a_pc, third, left_first, right_first>>
expandVars == <<e_pc, configs, configs_in, config_name, expanded,
                e_ancestry, e_depth>>
stackVars  == <<pc, layers, layer_api, config, dirs, frame, active, calls,
                outcome, initialized, init_status, base_config>>
vars == <<mergeVars, expandVars, stackVars>>

(***************************************************************************)
(* Python values. A value is tagged with its type so that isinstance()     *)
(* and == can be computed: a dict carries its items as a function from     *)
(* keys to values.                                                         *)
(***************************************************************************)
NoneVal == [kind |-> "none"]
IntVal(n) == [kind |-> "int", n |-> n]
StrVal(s) == [kind |-> "str", s |-> s]
BoolVal(b) == [kind |-> "bool", b |-> b]
DictVal(f) == [kind |-> "dict", items |-> f]
EmptyDict == DictVal([k \in {} |-> NoneVal])

\* isinstance(v, dict)
IsDict(v) == v.kind = "dict"

\* 'key in d' and d[key] for a dict d
HasKey(d, key) == key \in DOMAIN d.items
Item(d, key) == d.items[key]

\* d[key] = value on a dict
SetItem(d, key, value) ==
    DictVal([k \in (DOMAIN d.items) \cup {key} |->
                IF k = key THEN value ELSE d.items[k]])

(***************************************************************************)
(* merge_configs                                                           *)
(***************************************************************************)
RECURSIVE merge_configs(_, _)

\* Mutant: a shallow update, the overlay value always replaces the base value.
merge_configs_shallow(b, o) ==
    IF ~IsDict(b) \/ ~IsDict(o)
    THEN o
    ELSE DictVal([key \in (DOMAIN b.items) \cup (DOMAIN o.items) |->
                    IF key \in DOMAIN o.items THEN o.items[key]
                    ELSE b.items[key]])

\* Mutant: a non-dict overlay value does not replace a dict in the base.
merge_configs_keep_dict(b, o) ==
    IF ~IsDict(b) THEN o
    ELSE IF ~IsDict(o) THEN b
    ELSE DictVal([key \in (DOMAIN b.items) \cup (DOMAIN o.items) |->
                    IF key \in DOMAIN b.items /\ key \in DOMAIN o.items
                    THEN merge_configs(b.items[key], o.items[key])
                    ELSE IF key \in DOMAIN o.items THEN o.items[key]
                    ELSE b.items[key]])

\* Mutant: under a key of both, a dict of the base is not replaced by a
\* value of the overlay that is not a dict.
merge_configs_dict_survives(b, o) ==
    IF ~IsDict(b) \/ ~IsDict(o)
    THEN o
    ELSE DictVal([key \in (DOMAIN b.items) \cup (DOMAIN o.items) |->
                    IF key \notin DOMAIN o.items THEN b.items[key]
                    ELSE IF key \notin DOMAIN b.items THEN o.items[key]
                    ELSE IF IsDict(b.items[key]) /\ ~IsDict(o.items[key])
                         THEN b.items[key]
                         ELSE merge_configs(b.items[key], o.items[key])])

\* Mutant: a key of both whose base value is not a dict gets no value.
merge_configs_drops_overridden(b, o) ==
    IF ~IsDict(b) \/ ~IsDict(o)
    THEN o
    ELSE DictVal([key \in {k \in (DOMAIN b.items) \cup (DOMAIN o.items) :
                              ~(/\ k \in DOMAIN b.items
                                /\ k \in DOMAIN o.items
                                /\ ~IsDict(b.items[k]))} |->
                    IF key \notin DOMAIN o.items THEN b.items[key]
                    ELSE IF key \notin DOMAIN b.items THEN o.items[key]
                    ELSE merge_configs(b.items[key], o.items[key])])

merge_configs(b, o) ==
    IF ~IsDict(b) \/ ~IsDict(o)
    THEN o
    ELSE LET from_base ==
                 [key \in DOMAIN b.items |->
                     IF IsDict(b.items[key])
                     THEN IF key \in DOMAIN o.items
                          THEN merge_configs(b.items[key], o.items[key])
                          ELSE b.items[key]
                     ELSE IF key \in DOMAIN o.items
                          THEN o.items[key]
                          ELSE b.items[key]]
             only_overlay ==
                 [key \in (DOMAIN o.items) \ (DOMAIN b.items) |-> o.items[key]]
         IN  DictVal(from_base @@ only_overlay)

(***************************************************************************)
(* Bounded input trees: keys from Keys, scalars from Scalars, at most      *)
(* MaxSize key/value pairs in a tree, counted over all nesting levels.     *)
(***************************************************************************)
MaxSize == 3
Keys == {"a", "b"}
Scalars == {IntVal(1), IntVal(2)}

RECURSIVE SumOver(_, _)
SumOver(f, S) ==
    IF S = {} THEN 0
    ELSE LET k == CHOOSE x \in S : TRUE
         IN  f[k] + SumOver(f, S \ {k})

RECURSIVE Size(_)
Size(v) ==
    IF ~IsDict(v) THEN 0
    ELSE Cardinality(DOMAIN v.items)
         + SumOver([k \in DOMAIN v.items |-> Size(v.items[k])], DOMAIN v.items)

RECURSIVE ValuesUpTo(_)
ValuesUpTo(n) ==
    Scalars \cup
    IF n = 0 THEN {EmptyDict}
    ELSE LET sub == ValuesUpTo(n - 1)
         IN  {d \in {DictVal(f) : f \in UNION {[D -> sub] : D \in SUBSET Keys}} :
                 Size(d) <= n}

Values == ValuesUpTo(MaxSize)

(***************************************************************************)
(* merge_configs on objects. A Python dict is an object: two names can     *)
(* hold the same dict, and an assignment to d[key] is seen through both.   *)
(* The heap holds the dict objects, a dict value is the address of its     *)
(* object, and merge_configs is followed statement by statement, with      *)
(* every new_config = {} allocating an object and every new_config[key] =  *)
(* ... writing to it.                                                      *)
(***************************************************************************)
Ref(addr) == [kind |-> "dict", addr |-> addr]

\* d[key] = value on the object at 'addr'
HeapSetItem(h, addr, key, value) ==
    [h EXCEPT ![addr] = [k \in (DOMAIN @) \cup {key} |->
                            IF k = key THEN value ELSE @[k]]]

\* The keys of an object in the order items() yields them.
ItemKeys(obj) == SelectSeq(key_order, LAMBDA k : k \in DOMAIN obj)

\* The tree that a heap value stands for.
RECURSIVE Deref(_, _)
Deref(h, v) ==
    IF ~IsDict(v) THEN v
    ELSE DictVal([k \in DOMAIN h[v.addr] |-> Deref(h, h[v.addr][k])])

\* A tree put on the heap, one object for each of its dicts.
RECURSIVE Store(_, _)
RECURSIVE StoreItems(_, _, _, _)
Store(h, v) ==
    IF ~IsDict(v) THEN [heap |-> h, value |-> v]
    ELSE LET addr == Len(h) + 1
         IN  [heap |-> StoreItems(Append(h, <<>>), addr, v, DOMAIN v.items),
              value |-> Ref(addr)]
StoreItems(h, addr, v, keys) ==
    IF keys = {} THEN h
    ELSE LET key == CHOOSE k \in keys : TRUE
             sub == Store(h, v.items[key])
         IN  StoreItems(HeapSetItem(sub.heap, addr, key, sub.value), addr, v,
                        keys \ {key})

\* Mutant: the overlay is merged into the base dict itself.
merge_configs_heap_in_place(h, b, o) ==
    IF ~IsDict(b) \/ ~IsDict(o)
    THEN [heap |-> h, value |-> o]
    ELSE [heap |-> [h EXCEPT ![b.addr] =
                       [k \in (DOMAIN h[b.addr]) \cup (DOMAIN h[o.addr]) |->
                           IF k \in DOMAIN h[o.addr] THEN h[o.addr][k]
                           ELSE h[b.addr][k]]],
          value |-> b]

RECURSIVE merge_configs_heap(_, _, _)
RECURSIVE MergeBaseItems(_, _, _, _, _)

\* for key, value in base.items(): ...
MergeBaseItems(h, new_config, b, o, keys) ==
    IF keys = <<>> THEN h
    ELSE LET key == Head(keys)
             value == h[b.addr][key]
         IN  IF IsDict(value) /\ key \in DOMAIN h[o.addr]
             THEN LET sub == merge_configs_heap(h, h[b.addr][key], h[o.addr][key])
                  IN  MergeBaseItems(
                          HeapSetItem(sub.heap, new_config, key, sub.value),
                          new_config, b, o, Tail(keys))
             ELSE IF IsDict(value)
             THEN MergeBaseItems(HeapSetItem(h, new_config, key, value),
                                 new_config, b, o, Tail(keys))
             ELSE IF key \in DOMAIN h[o.addr]
             THEN MergeBaseItems(HeapSetItem(h, new_config, key, h[o.addr][key]),
                                 new_config, b, o, Tail(keys))
             ELSE MergeBaseItems(HeapSetItem(h, new_config, key, value),
                                 new_config, b, o, Tail(keys))

\* for key, value in overlay.items(): if key not in base: ...
RECURSIVE MergeOverlayItems(_, _, _, _, _)
MergeOverlayItems(h, new_config, b, o, keys) ==
    IF keys = <<>> THEN h
    ELSE LET key == Head(keys)
         IN  IF key \notin DOMAIN h[b.addr]
             THEN MergeOverlayItems(
                      HeapSetItem(h, new_config, key, h[o.addr][key]),
                      new_config, b, o, Tail(keys))
             ELSE MergeOverlayItems(h, new_config, b, o, Tail(keys))

merge_configs_heap(h, b, o) ==
    IF ~IsDict(b) \/ ~IsDict(o)
    THEN [heap |-> h, value |-> o]
    ELSE LET new_config == Len(h) + 1
             h0 == Append(h, <<>>)
             h1 == MergeBaseItems(h0, new_config, b, o, ItemKeys(h0[b.addr]))
             h2 == MergeOverlayItems(h1, new_config, b, o, ItemKeys(h1[o.addr]))
         IN  [heap |-> h2, value |-> Ref(new_config)]

\* The call merge_configs(base, overlay): the value it returns, and what it
\* does to the objects in memory.
MergeCall ==
    /\ m_pc = "ready"
    /\ merged' = merge_configs(base, overlay)
    /\ LET r == merge_configs_heap(heap, refs.base, refs.overlay)
       IN  /\ heap' = r.heap
           /\ refs' = [refs EXCEPT !.merged = r.value]
    /\ m_pc' = "done"
    /\ UNCHANGED <<base, overlay, heap_in, key_order,
                   a_pc, third, left_first, right_first, expandVars, stackVars>>

\* Three trees merged in sequence, grouped from the left and from the right.
MergeThree ==
    /\ a_pc = "ready"
    /\ left_first' = merge_configs(merge_configs(base, overlay), third)
    /\ right_first' = merge_configs(base, merge_configs(overlay, third))
    /\ a_pc' = "done"
    /\ UNCHANGED <<m_pc, base, overlay, merged, heap, heap_in, refs, key_order,
                   third, expandVars, stackVars>>

(***************************************************************************)
(* expand_inheritance                                                      *)
(*                                                                         *)
(* 'configs' is a Python dict of dicts: the function works on the objects  *)
(* it holds, so an assignment to configs[config_name][...] changes the     *)
(* collection. The operator returns the value returned or the error        *)
(* raised, together with the collection as the call leaves it.             *)
(***************************************************************************)
ListVal(s) == [kind |-> "list", elems |-> s]

\* raise ContextualError(msg): the message is kept as its formatted fields.
ContextualError(msg) == [type |-> "ContextualError", msg |-> msg]

Returned(value, cfgs) == [raised |-> FALSE, value |-> value, configs |-> cfgs]
Raised(error, cfgs) == [raised |-> TRUE, value |-> error, configs |-> cfgs]

\* Mutant: the parent name is taken as text, so that None reads "None".
get_parent_class_as_text(cfg) ==
    IF HasKey(cfg, "parent_class")
    THEN IF Item(cfg, "parent_class") = NoneVal THEN StrVal("None")
         ELSE Item(cfg, "parent_class")
    ELSE NoneVal

\* config.get('parent_class', None)
get_parent_class(cfg) ==
    IF HasKey(cfg, "parent_class") THEN Item(cfg, "parent_class") ELSE NoneVal

\* Mutant: no default is set, the key is left to the merge with the parent.
default_pure_base_class_skipped(cfg) == cfg

\* if 'pure_base_class' not in config: config['pure_base_class'] = False
default_pure_base_class(cfg) ==
    IF ~HasKey(cfg, "pure_base_class")
    THEN SetItem(cfg, "pure_base_class", BoolVal(FALSE))
    ELSE cfg

\* Mutant: the inheritance chain is not checked for a loop.
InAncestry_never(parent, ancestry) == FALSE

\* parent in ancestry
InAncestry(parent, ancestry) ==
    /\ parent.kind = "str"
    /\ \E i \in 1..Len(ancestry) : ancestry[i] = parent.s

\* Mutant: the error lists the chain without the repeated name.
circular_error_short(top_config, parent, ancestry) ==
    ContextualError([text |-> "the inheritance chain has a circular dependency",
                     top |-> top_config, on |-> parent.s,
                     chain |-> ancestry])

\* the ContextualError of a circular inheritance chain
circular_error(top_config, parent, ancestry) ==
    ContextualError([text |-> "the inheritance chain has a circular dependency",
                     top |-> top_config, on |-> parent.s,
                     chain |-> Append(ancestry, parent.s)])

\* Mutant: the KeyError of the lookup is not caught.
not_found_error_uncaught(name, cfgs) ==
    [type |-> "KeyError", msg |-> [name |-> name]]

\* the ContextualError of a name that is not in the collection
not_found_error(name, cfgs) ==
    ContextualError([text |-> "cannot find config sub-tree",
                     name |-> name, keys |-> DOMAIN cfgs])

\* Mutant: the parent is merged on top of the configuration.
merge_onto_parent_swapped(parent_config, cfg) ==
    SetItem(merge_configs(cfg, parent_config), "parent_class", NoneVal)

\* config = merge_configs(parent_config, config); config['parent_class'] = None
merge_onto_parent(parent_config, cfg) ==
    SetItem(merge_configs(parent_config, cfg), "parent_class", NoneVal)

RECURSIVE expand_inheritance(_, _, _, _)
expand_inheritance(cfgs, name, ancestry_arg, top_config_arg) ==
    LET ancestry == Append(IF ancestry_arg = NoneVal THEN <<>>
                           ELSE ancestry_arg.elems, name)
        top_config == IF top_config_arg = NoneVal THEN name
                      ELSE top_config_arg.s
    IN  IF name \notin DOMAIN cfgs
        THEN Raised(not_found_error(name, cfgs), cfgs)
        ELSE LET cfg == default_pure_base_class(cfgs[name])
                 cfgs1 == [cfgs EXCEPT ![name] = cfg]
                 parent == get_parent_class(cfg)
             IN  IF parent = NoneVal
                 THEN Returned(cfg, cfgs1)
                 ELSE IF InAncestry(parent, ancestry)
                 THEN Raised(circular_error(top_config, parent, ancestry), cfgs1)
                 ELSE LET sub == expand_inheritance(cfgs1, parent.s,
                                                    ListVal(ancestry),
                                                    StrVal(top_config))
                      IN  IF sub.raised
                          THEN sub
                          ELSE Returned(
                                   merge_onto_parent(sub.value,
                                                     sub.configs[name]),
                                   sub.configs)

(***************************************************************************)
(* Bounded collections: three named configurations, each with an optional  *)
(* parent_class (a name of the collection, a name that is not in it, or    *)
(* None), an optional pure_base_class and a payload.                       *)
(***************************************************************************)
ConfigNames == {"A", "B", "C"}
MissingName == "Z"
ParentChoices ==
    {"absent", "none"} \cup ConfigNames \cup {MissingName}
PureChoices == {"absent", "true"}
Payloads ==
    { EmptyDict,
      DictVal("a" :> IntVal(1)),
      DictVal("a" :> DictVal("a" :> IntVal(1))),
      DictVal("a" :> DictVal("b" :> IntVal(2))) }

MakeConfig(parent, pure, payload) ==
    LET p1 == IF parent = "absent" THEN payload
              ELSE IF parent = "none"
                   THEN SetItem(payload, "parent_class", NoneVal)
                   ELSE SetItem(payload, "parent_class", StrVal(parent))
    IN  IF pure = "absent" THEN p1
        ELSE SetItem(p1, "pure_base_class", BoolVal(TRUE))

ConfigTrees ==
    {MakeConfig(p, b, d) : p \in ParentChoices, b \in PureChoices, d \in Payloads}

ExpandCall(name) ==
    /\ e_pc = "ready"
    /\ LET r == expand_inheritance(configs, name, NoneVal, NoneVal)
       IN  /\ expanded' = [raised |-> r.raised, value |-> r.value]
           /\ configs' = r.configs
    /\ configs_in' = configs
    /\ config_name' = name
    /\ e_pc' = "done"
    /\ UNCHANGED <<e_ancestry, e_depth, mergeVars, stackVars>>

(***************************************************************************)
(* expand_inheritance, one invocation at a time. The recursion is a chain: *)
(* frame i of the call stack runs for the name ancestry[i], and a frame    *)
(* that has called its parent waits for it. An exception is caught by no   *)
(* frame and goes to the caller. RecursionLimit stands for the             *)
(* interpreter's limit on the depth of the call stack.                     *)
(***************************************************************************)
RecursionLimit == 6

\* The caller calls expand_inheritance(configs, name): ancestry = [].
ExpandEnter(name) ==
    /\ e_pc = "ready"
    /\ e_pc' = "call"
    /\ config_name' = name
    /\ configs_in' = configs
    /\ e_ancestry' = <<>>
    /\ e_depth' = 0
    /\ UNCHANGED <<configs, expanded, mergeVars, stackVars>>

\* The argument config_name of the invocation that is entered next: the
\* caller's, or the parent of the frame that makes the recursive call.
Callee ==
    IF e_ancestry = <<>> THEN config_name
    ELSE get_parent_class(configs[e_ancestry[Len(e_ancestry)]]).s

\* ancestry.append(config_name); configs[config_name] raises KeyError.
ExpandNotFound ==
    /\ e_pc = "call"
    /\ Callee \notin DOMAIN configs
    /\ e_ancestry' = Append(e_ancestry, Callee)
    /\ expanded' = [raised |-> TRUE, value |-> not_found_error(Callee, configs)]
    /\ e_pc' = "done"
    /\ e_depth' = 0
    /\ UNCHANGED <<configs, configs_in, config_name, mergeVars, stackVars>>

\* The configuration has no parent: it is returned with its default set.
ExpandNoParent ==
    /\ e_pc = "call"
    /\ Callee \in DOMAIN configs
    /\ LET cfg == default_pure_base_class(configs[Callee])
       IN  /\ get_parent_class(cfg) = NoneVal
           /\ configs' = [configs EXCEPT ![Callee] = cfg]
           /\ expanded' = [raised |-> FALSE, value |-> cfg]
    /\ e_ancestry' = Append(e_ancestry, Callee)
    /\ e_depth' = e_depth + 1
    /\ e_pc' = "return"
    /\ UNCHANGED <<configs_in, config_name, mergeVars, stackVars>>

\* The parent is in ancestry: ContextualError.
ExpandCircular ==
    /\ e_pc = "call"
    /\ Callee \in DOMAIN configs
    /\ LET cfg == default_pure_base_class(configs[Callee])
           parent == get_parent_class(cfg)
       IN  /\ parent # NoneVal
           /\ InAncestry(parent, Append(e_ancestry, Callee))
           /\ configs' = [configs EXCEPT ![Callee] = cfg]
           /\ expanded' = [raised |-> TRUE,
                           value |-> circular_error(
                                         Append(e_ancestry, Callee)[1], parent,
                                         Append(e_ancestry, Callee))]
    /\ e_ancestry' = Append(e_ancestry, Callee)
    /\ e_pc' = "done"
    /\ e_depth' = 0
    /\ UNCHANGED <<configs_in, config_name, mergeVars, stackVars>>

\* expand_inheritance(configs, parent, ancestry, top_config): the frame
\* calls itself for its parent.
ExpandRecurse ==
    /\ e_pc = "call"
    /\ Callee \in DOMAIN configs
    /\ Len(e_ancestry) + 1 < RecursionLimit
    /\ LET cfg == default_pure_base_class(configs[Callee])
           parent == get_parent_class(cfg)
       IN  /\ parent # NoneVal
           /\ ~InAncestry(parent, Append(e_ancestry, Callee))
           /\ configs' = [configs EXCEPT ![Callee] = cfg]
    /\ e_ancestry' = Append(e_ancestry, Callee)
    /\ e_depth' = e_depth + 1
    /\ UNCHANGED <<e_pc, configs_in, config_name, expanded,
                   mergeVars, stackVars>>

\* The recursive call has returned parent_config: the waiting frame merges
\* its configuration on top of it and returns.
ExpandMerge ==
    /\ e_pc = "return"
    /\ e_depth > 1
    /\ expanded' = [raised |-> FALSE,
                    value |-> merge_onto_parent(expanded.value,
                                                configs[e_ancestry[e_depth - 1]])]
    /\ e_depth' = e_depth - 1
    /\ UNCHANGED <<e_pc, configs, configs_in, config_name, e_ancestry,
                   mergeVars, stackVars>>

\* The outermost invocation returns to the caller.
ExpandReturn ==
    /\ e_pc = "return"
    /\ e_depth = 1
    /\ e_pc' = "done"
    /\ e_depth' = 0
    /\ UNCHANGED <<configs, configs_in, config_name, expanded, e_ancestry,
                   mergeVars, stackVars>>

(***************************************************************************)
(* VTDSStack                                                               *)
(*                                                                         *)
(* The stack is single-threaded: initialize() and the phase sweeps run to  *)
(* their end before the caller can make another call. A sweep is a         *)
(* sequence of blocking calls into the layers, which are not part of this  *)
(* repository: each call either returns or raises, and that choice is the  *)
(* layer's. The same holds for makedirs() and for the constructor of a     *)
(* layer's LayerAPI class during initialize().                             *)
(***************************************************************************)
Slots == {"core", "application", "cluster", "platform", "provider"}
NoSlot == "none"
PhaseNames == {"consolidate", "prepare", "validate", "deploy", "remove"}

\* The configurations handed to initialize() and the build directories.
Cfgs == {EmptyDict, DictVal("a" :> IntVal(1))}
BuildDirs == {"build"}

\* What a layer's phase method or LayerAPI constructor may raise.
LayerErrors ==
    { ContextualError([text |-> "layer operation failed"]),
      [type |-> "AttributeError", msg |-> [text |-> "no such attribute"]] }

\* The object layer_api_class(stack, config, build_dir) of the layer in 'slot'.
LayerAPI(slot, cfg, build_dir) ==
    [kind |-> "api", layer |-> slot, config |-> cfg, build_dir |-> build_dir]

\* path_join(build_dir, name)
path_join(build_dir, name) == <<build_dir, name>>

\* Mutant: the core layer is constructed like any other layer.
is_core_never(slot) == FALSE

\* Layer.is_core
is_core(slot) == slot = "core"

\* Mutant: a layer that was never initialized hands out an API object.
get_api_eager(slot) ==
    IF layer_api[slot] = NoneVal THEN LayerAPI(slot, NoneVal, NoneVal)
    ELSE layer_api[slot]

\* Layer.get_api()
get_api(slot) == layer_api[slot]

\* self.<slot>.get_api() if self.<slot> else None
ApiOrNone(slot) == IF layers[slot] THEN get_api(slot) ELSE NoneVal

\* How a call into a layer stands in the log 'calls': in progress, returned,
\* or the error it raised.
Pending == [kind |-> "pending"]
Returns == [kind |-> "returned"]

\* The locals of a call in progress, and the record of a finished call.
NoFrame == [op |-> "none"]
Return(op, args, value) ==
    [op |-> op, args |-> args, raised |-> FALSE, value |-> value,
     source |-> NoSlot]
Raise(op, args, error, source) ==
    [op |-> op, args |-> args, raised |-> TRUE, value |-> error,
     source |-> source]

\* ---- initialize(config, build_dir)
InitOrder == <<"core", "application", "cluster", "platform", "provider">>

\* Mutant: initialize() stores the configuration before it initializes the layers.
initialize_store_first(cfg, build_dir) ==
    /\ pc = "idle"
    /\ pc' = "initialize"
    /\ frame' = [op |-> "initialize", config |-> cfg, build_dir |-> build_dir,
                 next |-> 1]
    /\ calls' = <<>>
    /\ config' = cfg
    /\ init_status' = "running"
    /\ UNCHANGED <<layers, layer_api, dirs, active, outcome,
                   initialized, base_config, mergeVars, expandVars>>

\* The caller enters initialize(config, build_dir).
initialize(cfg, build_dir) ==
    /\ pc = "idle"
    /\ pc' = "initialize"
    /\ frame' = [op |-> "initialize", config |-> cfg, build_dir |-> build_dir,
                 next |-> 1]
    /\ calls' = <<>>
    /\ init_status' = "running"
    /\ UNCHANGED <<layers, layer_api, config, dirs, active, outcome,
                   initialized, base_config, mergeVars, expandVars>>

InInitLayer == pc = "initialize" /\ frame.next <= Len(InitOrder)
InitSlot == InitOrder[frame.next]
InitArgs == [config |-> frame.config, build_dir |-> frame.build_dir]

\* __init_layer__ of a slot that holds no layer: returns at once.
InitLayerAbsent ==
    /\ InInitLayer
    /\ ~layers[InitSlot]
    /\ frame' = [frame EXCEPT !.next = @ + 1]
    /\ UNCHANGED <<pc, layers, layer_api, config, dirs, active, calls, outcome,
                   initialized, init_status, base_config, mergeVars, expandVars>>

\* __init_layer__: makedirs() raises OSError (never for a directory that
\* exists: exist_ok is True), and initialize() raises ContextualError.
InitLayerMakedirsFails ==
    /\ InInitLayer
    /\ layers[InitSlot]
    /\ path_join(frame.build_dir, InitSlot) \notin dirs
    /\ pc' = "idle"
    /\ frame' = NoFrame
    /\ outcome' = Raise("initialize", InitArgs,
                        ContextualError(
                            [text |-> "failed to create build directory for layer",
                             name |-> InitSlot,
                             path |-> path_join(frame.build_dir, InitSlot)]),
                        "stack")
    /\ init_status' = "failed"
    /\ UNCHANGED <<layers, layer_api, config, dirs, active, calls,
                   initialized, base_config, mergeVars, expandVars>>

\* __init_layer__ of the core layer: the directory is made, and
\* Layer.initialize() returns without building an API object.
InitLayerCore ==
    /\ InInitLayer
    /\ layers[InitSlot]
    /\ is_core(InitSlot)
    /\ dirs' = dirs \cup {path_join(frame.build_dir, InitSlot)}
    /\ frame' = [frame EXCEPT !.next = @ + 1]
    /\ UNCHANGED <<pc, layers, layer_api, config, active, calls, outcome,
                   initialized, init_status, base_config, mergeVars, expandVars>>

\* Mutant: when the LayerAPI constructor raises, initialize() takes back the
\* API objects of all layers.
InitLayerApiFails_rollback(error) ==
    /\ InInitLayer
    /\ layers[InitSlot]
    /\ ~is_core(InitSlot)
    /\ dirs' = dirs \cup {path_join(frame.build_dir, InitSlot)}
    /\ layer_api' = [slot \in Slots |-> NoneVal]
    /\ pc' = "idle"
    /\ frame' = NoFrame
    /\ outcome' = Raise("initialize", InitArgs, error, InitSlot)
    /\ init_status' = "failed"
    /\ UNCHANGED <<layers, config, active, calls,
                   initialized, base_config, mergeVars, expandVars>>

\* __init_layer__: the directory is made, the LayerAPI constructor raises.
InitLayerApiFails(error) ==
    /\ InInitLayer
    /\ layers[InitSlot]
    /\ ~is_core(InitSlot)
    /\ dirs' = dirs \cup {path_join(frame.build_dir, InitSlot)}
    /\ pc' = "idle"
    /\ frame' = NoFrame
    /\ outcome' = Raise("initialize", InitArgs, error, InitSlot)
    /\ init_status' = "failed"
    /\ UNCHANGED <<layers, layer_api, config, active, calls,
                   initialized, base_config, mergeVars, expandVars>>

\* Mutant: a layer that holds an API object from an earlier initialize()
\* keeps it.
InitLayerOk_keep_existing ==
    /\ InInitLayer
    /\ layers[InitSlot]
    /\ ~is_core(InitSlot)
    /\ dirs' = dirs \cup {path_join(frame.build_dir, InitSlot)}
    /\ layer_api' = [layer_api EXCEPT ![InitSlot] =
                        IF @ # NoneVal THEN @
                        ELSE LayerAPI(InitSlot, frame.config,
                                      path_join(frame.build_dir, InitSlot))]
    /\ frame' = [frame EXCEPT !.next = @ + 1]
    /\ UNCHANGED <<pc, layers, config, active, calls, outcome,
                   initialized, init_status, base_config, mergeVars, expandVars>>

\* Mutant: the layer is initialized without its build directory being made.
InitLayerOk_no_makedirs ==
    /\ InInitLayer
    /\ layers[InitSlot]
    /\ ~is_core(InitSlot)
    /\ layer_api' = [layer_api EXCEPT ![InitSlot] =
                        LayerAPI(InitSlot, frame.config,
                                 path_join(frame.build_dir, InitSlot))]
    /\ frame' = [frame EXCEPT !.next = @ + 1]
    /\ UNCHANGED <<pc, layers, config, dirs, active, calls, outcome,
                   initialized, init_status, base_config, mergeVars, expandVars>>

\* __init_layer__: the directory is made and the layer gets its API object.
InitLayerOk ==
    /\ InInitLayer
    /\ layers[InitSlot]
    /\ ~is_core(InitSlot)
    /\ dirs' = dirs \cup {path_join(frame.build_dir, InitSlot)}
    /\ layer_api' = [layer_api EXCEPT ![InitSlot] =
                        LayerAPI(InitSlot, frame.config,
                                 path_join(frame.build_dir, InitSlot))]
    /\ frame' = [frame EXCEPT !.next = @ + 1]
    /\ UNCHANGED <<pc, layers, config, active, calls, outcome,
                   initialized, init_status, base_config, mergeVars, expandVars>>

\* Mutant: a configuration that is already stored is kept.
InitializeReturn_keep_config ==
    /\ pc = "initialize"
    /\ frame.next > Len(InitOrder)
    /\ config' = IF config = NoneVal THEN frame.config ELSE config
    /\ pc' = "idle"
    /\ frame' = NoFrame
    /\ outcome' = Return("initialize", InitArgs, NoneVal)
    /\ initialized' = TRUE
    /\ init_status' = "completed"
    /\ UNCHANGED <<layers, layer_api, dirs, active, calls,
                   base_config, mergeVars, expandVars>>

\* self.config = config, and initialize() returns.
InitializeReturn ==
    /\ pc = "initialize"
    /\ frame.next > Len(InitOrder)
    /\ config' = frame.config
    /\ pc' = "idle"
    /\ frame' = NoFrame
    /\ outcome' = Return("initialize", InitArgs, NoneVal)
    /\ initialized' = TRUE
    /\ init_status' = "completed"
    /\ UNCHANGED <<layers, layer_api, dirs, active, calls,
                   base_config, mergeVars, expandVars>>

\* ---- the phase sweeps
\* __active_apis__(api_list): the default list when api_list is None, and
\* the entries that are not None.
default_api_list ==
    << ApiOrNone("provider"), ApiOrNone("platform"),
       ApiOrNone("cluster"), ApiOrNone("application") >>

\* Mutant: the default list runs from the top of the stack down.
active_apis_top_down(api_list) ==
    SelectSeq(IF api_list = NoneVal
              THEN << ApiOrNone("application"), ApiOrNone("cluster"),
                      ApiOrNone("platform"), ApiOrNone("provider") >>
              ELSE api_list.elems,
              LAMBDA api : api # NoneVal)

__active_apis__(api_list) ==
    SelectSeq(IF api_list = NoneVal THEN default_api_list ELSE api_list.elems,
              LAMBDA api : api # NoneVal)

\* Mutant: remove() works from the bottom of the stack up, like deploy().
remove_api_list_bottom_up ==
    ListVal(<< ApiOrNone("provider"), ApiOrNone("platform"),
               ApiOrNone("cluster"), ApiOrNone("application") >>)

\* the api_list that remove() builds
remove_api_list ==
    ListVal(<< ApiOrNone("application"), ApiOrNone("cluster"),
               ApiOrNone("platform"), ApiOrNone("provider") >>)

\* Mutant: a phase method refuses to run before initialize() has stored a
\* configuration.
StartSweep_checked(phase, api_list) ==
    /\ pc = "idle"
    /\ calls' = <<>>
    /\ IF config = NoneVal
       THEN /\ outcome' = Raise(phase, NoneVal,
                                ContextualError([text |-> "stack is not initialized"]),
                                "stack")
            /\ UNCHANGED <<pc, frame>>
       ELSE /\ pc' = "sweep"
            /\ frame' = [op |-> phase, api_list |-> __active_apis__(api_list)]
            /\ UNCHANGED outcome
    /\ UNCHANGED <<layers, layer_api, config, dirs, active,
                   initialized, init_status, base_config, mergeVars, expandVars>>

\* The caller enters a phase method: the list of APIs is computed once,
\* before the first layer is called.
StartSweep(phase, api_list) ==
    /\ pc = "idle"
    /\ pc' = "sweep"
    /\ frame' = [op |-> phase, api_list |-> __active_apis__(api_list)]
    /\ calls' = <<>>
    /\ UNCHANGED <<layers, layer_api, config, dirs, active, outcome,
                   initialized, init_status, base_config, mergeVars, expandVars>>

consolidate == StartSweep("consolidate", NoneVal)
prepare == StartSweep("prepare", NoneVal)
validate == StartSweep("validate", NoneVal)
deploy == StartSweep("deploy", NoneVal)
remove == StartSweep("remove", remove_api_list)

\* for api in ...: api.<phase>() -- the call is issued to the next API.
LayerCall ==
    /\ pc = "sweep"
    /\ active = NoSlot
    /\ frame.api_list # <<>>
    /\ active' = Head(frame.api_list).layer
    /\ calls' = Append(calls, [layer |-> Head(frame.api_list).layer,
                               method |-> frame.op, result |-> Pending])
    /\ frame' = [frame EXCEPT !.api_list = Tail(@)]
    /\ UNCHANGED <<pc, layers, layer_api, config, dirs, outcome,
                   initialized, init_status, base_config, mergeVars, expandVars>>

\* The layer's phase method returns: the loop goes on.
LayerReturn ==
    /\ pc = "sweep"
    /\ active # NoSlot
    /\ active' = NoSlot
    /\ calls' = [calls EXCEPT ![Len(calls)].result = Returns]
    /\ UNCHANGED <<pc, layers, layer_api, config, dirs, frame, outcome,
                   initialized, init_status, base_config, mergeVars, expandVars>>

\* Mutant: the sweep wraps the layer's error with the slot and the phase.
LayerRaiseWrapped(error) ==
    /\ pc = "sweep"
    /\ active # NoSlot
    /\ active' = NoSlot
    /\ pc' = "idle"
    /\ frame' = NoFrame
    /\ outcome' = Raise(frame.op, NoneVal,
                        [type |-> "PhaseFailure", layer |-> active,
                         phase |-> frame.op, cause |-> error],
                        active)
    /\ calls' = [calls EXCEPT ![Len(calls)].result = error]
    /\ UNCHANGED <<layers, layer_api, config, dirs,
                   initialized, init_status, base_config, mergeVars, expandVars>>

\* Mutant: the sweep notes the error and goes on with the next layer.
LayerRaiseContinue(error) ==
    /\ pc = "sweep"
    /\ active # NoSlot
    /\ active' = NoSlot
    /\ outcome' = Raise(frame.op, NoneVal, error, active)
    /\ calls' = [calls EXCEPT ![Len(calls)].result = error]
    /\ UNCHANGED <<pc, layers, layer_api, config, dirs, frame,
                   initialized, init_status, base_config, mergeVars, expandVars>>

\* The layer's phase method raises: no handler in the stack, the exception
\* leaves the phase method as it is.
LayerRaise(error) ==
    /\ pc = "sweep"
    /\ active # NoSlot
    /\ active' = NoSlot
    /\ pc' = "idle"
    /\ frame' = NoFrame
    /\ outcome' = Raise(frame.op, NoneVal, error, active)
    /\ calls' = [calls EXCEPT ![Len(calls)].result = error]
    /\ UNCHANGED <<layers, layer_api, config, dirs,
                   initialized, init_status, base_config, mergeVars, expandVars>>

\* The loop is over: the phase method returns.
SweepReturn ==
    /\ pc = "sweep"
    /\ active = NoSlot
    /\ frame.api_list = <<>>
    /\ pc' = "idle"
    /\ frame' = NoFrame
    /\ outcome' = Return(frame.op, NoneVal, NoneVal)
    /\ UNCHANGED <<layers, layer_api, config, dirs, active, calls,
                   initialized, init_status, base_config, mergeVars, expandVars>>

\* ---- configuration assembly
\* self.<slot>.base_config if self.<slot> else None
BaseConfigOrNone(slot) == IF layers[slot] THEN base_config[slot] ELSE NoneVal

\* Mutant: the core layer's configuration comes first instead of last.
default_config_list_core_first ==
    << BaseConfigOrNone("core"), BaseConfigOrNone("provider"),
       BaseConfigOrNone("platform"), BaseConfigOrNone("cluster"),
       BaseConfigOrNone("application") >>

default_config_list ==
    << BaseConfigOrNone("provider"), BaseConfigOrNone("platform"),
       BaseConfigOrNone("cluster"), BaseConfigOrNone("application"),
       BaseConfigOrNone("core") >>

__active_configs__(config_list) ==
    SelectSeq(IF config_list = NoneVal THEN default_config_list
              ELSE config_list.elems,
              LAMBDA c : c # NoneVal)

\* ret = ""; for config in configs: ret += config.get_base_config_text() + '\n'
RECURSIVE CollateText(_, _)

\* Mutant: the line break is put between the texts, none after the last.
CollateText_joined(ret, cfgs) ==
    IF cfgs = <<>> THEN ret
    ELSE CollateText(IF Len(cfgs) = 1 THEN ret \o Head(cfgs).text
                     ELSE ret \o Head(cfgs).text \o <<"\n">>,
                     Tail(cfgs))

CollateText(ret, cfgs) ==
    IF cfgs = <<>> THEN ret
    ELSE CollateText(ret \o Head(cfgs).text \o <<"\n">>, Tail(cfgs))

get_base_config_text == CollateText(<<>>, __active_configs__(NoneVal))

\* for config in configs: ret = merge_configs(ret, config.get_base_config())
RECURSIVE MergeBaseConfigs(_, _)
MergeBaseConfigs(ret, cfgs) ==
    IF cfgs = <<>> THEN ret
    ELSE MergeBaseConfigs(merge_configs(ret, Head(cfgs).config), Tail(cfgs))

get_base_config == MergeBaseConfigs(EmptyDict, __active_configs__(NoneVal))

\* for config in configs:
\*     base_config = merge_configs(base_config, config.get_test_overlay())
RECURSIVE MergeTestOverlays(_, _)
MergeTestOverlays(ret, cfgs) ==
    IF cfgs = <<>> THEN ret
    ELSE MergeTestOverlays(merge_configs(ret, Head(cfgs).test_overlay),
                           Tail(cfgs))

\* Mutant: the base configuration is merged on top of each test overlay.
get_test_config_base_wins ==
    MergeBaseConfigs(MergeTestOverlays(EmptyDict, __active_configs__(NoneVal)),
                     __active_configs__(NoneVal))

get_test_config ==
    MergeTestOverlays(get_base_config, __active_configs__(NoneVal))

\* Mutant: an empty configuration counts as no configuration.
get_final_config_falsy ==
    IF config = NoneVal \/ config = EmptyDict
    THEN [raised |-> TRUE,
          value |-> ContextualError(
              [text |-> "can't request stack configuration before calling initialize()"])]
    ELSE [raised |-> FALSE, value |-> config]

get_final_config ==
    IF config = NoneVal
    THEN [raised |-> TRUE,
          value |-> ContextualError(
              [text |-> "can't request stack configuration before calling initialize()"])]
    ELSE [raised |-> FALSE, value |-> config]

\* The caller's calls of the four accessors: none of them assigns to the stack.
Accessor(op, result) ==
    /\ pc = "idle"
    /\ outcome' = result
    /\ calls' = <<>>
    /\ UNCHANGED <<pc, layers, layer_api, config, dirs, frame, active,
                   initialized, init_status, base_config, mergeVars, expandVars>>

GetBaseConfigText ==
    Accessor("get_base_config_text",
             Return("get_base_config_text", NoneVal, get_base_config_text))
GetBaseConfig ==
    Accessor("get_base_config",
             Return("get_base_config", NoneVal, get_base_config))
GetTestConfig ==
    Accessor("get_test_config",
             Return("get_test_config", NoneVal, get_test_config))
GetFinalConfig ==
    Accessor("get_final_config",
             IF get_final_config.raised
             THEN Raise("get_final_config", NoneVal, get_final_config.value,
                        "stack")
             ELSE Return("get_final_config", NoneVal, get_final_config.value))

(***************************************************************************)
(* The specifications                                                      *)
(***************************************************************************)
MergeIdle ==
    /\ m_pc = "idle"
    /\ base = NoneVal
    /\ overlay = NoneVal
    /\ merged = NoneVal
    /\ heap = <<>>
    /\ heap_in = <<>>
    /\ refs = [base |-> NoneVal, overlay |-> NoneVal, merged |-> NoneVal]
    /\ key_order = <<>>
    /\ a_pc = "idle"
    /\ third = NoneVal
    /\ left_first = NoneVal
    /\ right_first = NoneVal

ExpandIdle ==
    /\ e_pc = "idle"
    /\ configs = [n \in {} |-> NoneVal]
    /\ configs_in = [n \in {} |-> NoneVal]
    /\ config_name = MissingName
    /\ expanded = [raised |-> FALSE, value |-> NoneVal]
    /\ e_ancestry = <<>>
    /\ e_depth = 0

\* No stack object has been made.
StackOff ==
    /\ pc = "off"
    /\ layers = [s \in Slots |-> FALSE]
    /\ layer_api = [s \in Slots |-> NoneVal]
    /\ config = NoneVal
    /\ dirs = {}
    /\ frame = NoFrame
    /\ active = NoSlot
    /\ calls = <<>>
    /\ outcome = Return("none", NoneVal, NoneVal)
    /\ initialized = FALSE
    /\ init_status = "none"
    /\ base_config = [s \in Slots |-> NoneVal]

\* What the BaseConfig object of each layer reads from the layer's files.
LayerFiles(slot) ==
    CASE slot = "provider" ->
           [config |-> DictVal(("a" :> IntVal(1)) @@
                               ("b" :> DictVal("a" :> IntVal(1)))),
            test_overlay |-> DictVal("a" :> IntVal(2)),
            text |-> <<"provider.yaml">>]
      [] slot = "platform" ->
           [config |-> DictVal(("a" :> IntVal(2)) @@
                               ("b" :> DictVal("b" :> IntVal(2)))),
            test_overlay |-> EmptyDict,
            text |-> <<"platform.yaml">>]
      [] slot = "cluster" ->
           [config |-> DictVal("b" :> DictVal("a" :> IntVal(2))),
            test_overlay |-> DictVal("b" :> IntVal(1)),
            text |-> <<"cluster.yaml">>]
      [] slot = "application" ->
           [config |-> DictVal("a" :> IntVal(1)),
            test_overlay |-> EmptyDict,
            text |-> <<"application.yaml">>]
      [] OTHER ->
           [config |-> DictVal("a" :> DictVal("a" :> IntVal(1))),
            test_overlay |-> EmptyDict,
            text |-> <<"core.yaml">>]

(***************************************************************************)
(* Construction of the stack: VTDSStack.__init__ resolves the module name  *)
(* given for each slot to a Layer, or to no layer when there is no name.   *)
(* What a module name imports to is the environment's: the names below     *)
(* stand for a module that implements a layer, the default core module,    *)
(* a module without LayerAPI, a module without BaseConfig, and a name that *)
(* cannot be imported.                                                     *)
(***************************************************************************)
ModuleNameArgs ==
    { NoneVal, StrVal(""), StrVal("layer_mod"), StrVal("no_api_mod"),
      StrVal("no_base_config_mod"), StrVal("missing_mod") }

\* importlib.import_module(module_name): the attributes of the module, or
\* ImportError.
import_module(module_name) ==
    CASE module_name = "layer_mod" ->
           [imported |-> TRUE, attrs |-> {"LayerAPI", "BaseConfig"}]
      [] module_name = "vtds_core" ->
           [imported |-> TRUE, attrs |-> {"BaseConfig"}]
      [] module_name = "no_api_mod" ->
           [imported |-> TRUE, attrs |-> {"BaseConfig"}]
      [] module_name = "no_base_config_mod" ->
           [imported |-> TRUE, attrs |-> {"LayerAPI"}]
      [] OTHER ->
           [imported |-> FALSE, attrs |-> {}]

\* Layer.__init__(module_name, is_core): the Layer object, or the
\* ContextualError raised from the ImportError or AttributeError.
Layer(module_name, core) ==
    LET module == import_module(module_name)
    IN  IF ~module.imported
        THEN [raised |-> TRUE,
              value |-> ContextualError([text |-> "cannot import layer module",
                                         name |-> module_name,
                                         cause |-> "ImportError"])]
        ELSE IF (~core /\ "LayerAPI" \notin module.attrs)
                \/ "BaseConfig" \notin module.attrs
        THEN [raised |-> TRUE,
              value |-> ContextualError(
                            [text |-> "layer module does not implement a vTDS layer",
                             name |-> module_name,
                             cause |-> "AttributeError"])]
        ELSE [raised |-> FALSE, value |-> [kind |-> "layer", core |-> core]]

\* Mutant: only a name that is None stands for no layer.
construct_layer_unless_none(module_name, core) ==
    IF module_name # NoneVal
    THEN Layer(module_name.s, core)
    ELSE [raised |-> FALSE, value |-> NoneVal]

\* __construct_layer__: Layer(module_name, is_core) if module_name else None
__construct_layer__(module_name, core) ==
    IF module_name # NoneVal /\ module_name # StrVal("")
    THEN Layer(module_name.s, core)
    ELSE [raised |-> FALSE, value |-> NoneVal]

\* The order in which __init__ constructs the layers.
ConstructOrder == <<"application", "cluster", "platform", "provider", "core">>

\* core_name = "vtds_core" if not core_name else core_name
NameOf(names, slot) ==
    IF slot = "core" /\ names[slot] \in {NoneVal, StrVal("")}
    THEN StrVal("vtds_core")
    ELSE names[slot]

Constructed(names, slot) == __construct_layer__(NameOf(names, slot), slot = "core")

\* VTDSStack.__init__: the layers are constructed in order; the first
\* construction that raises ends __init__, and there is no stack object.
VTDSStack ==
    /\ pc = "new"
    /\ LET names == frame.names
           failing == {i \in 1..Len(ConstructOrder) :
                          Constructed(names, ConstructOrder[i]).raised}
       IN  IF failing = {}
           THEN /\ pc' = "idle"
                /\ layers' = [s \in Slots |-> Constructed(names, s).value # NoneVal]
                /\ base_config' = [s \in Slots |->
                                      IF Constructed(names, s).value # NoneVal
                                      THEN LayerFiles(s) ELSE NoneVal]
                /\ outcome' = Return("__init__", names, NoneVal)
           ELSE LET first == CHOOSE i \in failing : \A j \in failing : i <= j
                IN  /\ pc' = "failed"
                    /\ outcome' = Raise("__init__", names,
                                        Constructed(names, ConstructOrder[first]).value,
                                        ConstructOrder[first])
                    /\ UNCHANGED <<layers, base_config>>
    /\ frame' = NoFrame
    /\ UNCHANGED <<layer_api, config, dirs, active, calls, initialized,
                   init_status, mergeVars, expandVars>>

\* VTDSStack.__init__: every slot with a module name holds a Layer, the core
\* slot always does (core_name defaults to "vtds_core").
InitStack ==
    /\ pc = "idle"
    /\ layers \in {f \in [Slots -> BOOLEAN] : f["core"]}
    /\ layer_api = [s \in Slots |-> NoneVal]
    /\ config = NoneVal
    /\ dirs = {}
    /\ frame = NoFrame
    /\ active = NoSlot
    /\ calls = <<>>
    /\ outcome = Return("__init__", NoneVal, NoneVal)
    /\ initialized = FALSE
    /\ init_status = "none"
    /\ base_config = [s \in Slots |->
                         IF layers[s] THEN LayerFiles(s) ELSE NoneVal]

Init == MergeIdle /\ ExpandIdle /\ InitStack

Next ==
    \/ \E cfg \in Cfgs, build_dir \in BuildDirs : initialize(cfg, build_dir)
    \/ InitLayerAbsent
    \/ InitLayerMakedirsFails
    \/ InitLayerCore
    \/ \E error \in LayerErrors : InitLayerApiFails(error)
    \/ InitLayerOk
    \/ InitializeReturn
    \/ consolidate
    \/ prepare
    \/ validate
    \/ deploy
    \/ remove
    \/ LayerCall
    \/ LayerReturn
    \/ \E error \in LayerErrors : LayerRaise(error)
    \/ SweepReturn
    \/ GetBaseConfigText
    \/ GetBaseConfig
    \/ GetTestConfig
    \/ GetFinalConfig

Spec == Init /\ [][Next]_vars

\* A caller about to construct a stack, with every choice of module names.
InitResolve ==
    /\ pc = "new"
    /\ frame \in {[op |-> "__init__", names |-> names] :
                     names \in [Slots -> ModuleNameArgs]}
    /\ layers = [s \in Slots |-> FALSE]
    /\ layer_api = [s \in Slots |-> NoneVal]
    /\ config = NoneVal
    /\ dirs = {}
    /\ active = NoSlot
    /\ calls = <<>>
    /\ outcome = Return("none", NoneVal, NoneVal)
    /\ initialized = FALSE
    /\ init_status = "none"
    /\ base_config = [s \in Slots |-> NoneVal]
    /\ MergeIdle
    /\ ExpandIdle

NextResolve == VTDSStack \/ Next

SpecResolve == InitResolve /\ [][NextResolve]_vars

\* The orders in which a dict may yield its keys.
KeyOrders ==
    {order \in [1..Cardinality(Keys) -> Keys] :
        \A i, j \in DOMAIN order : order[i] = order[j] => i = j}

\* Every pair of bounded trees as arguments; equal dicts may be one object
\* passed twice or two objects.
InitMerge ==
    /\ m_pc = "ready"
    /\ base \in Values
    /\ overlay \in Values
    /\ merged = NoneVal
    /\ key_order \in KeyOrders
    /\ \E same_object \in BOOLEAN :
          /\ same_object => (IsDict(base) /\ base = overlay)
          /\ LET b == Store(<<>>, base)
                 o == IF same_object THEN b ELSE Store(b.heap, overlay)
             IN  /\ heap = o.heap
                 /\ refs = [base |-> b.value, overlay |-> o.value,
                            merged |-> NoneVal]
    /\ heap_in = heap
    /\ a_pc = "idle"
    /\ third = NoneVal
    /\ left_first = NoneVal
    /\ right_first = NoneVal
    /\ ExpandIdle
    /\ StackOff

NextMerge == MergeCall

SpecMerge == InitMerge /\ [][NextMerge]_vars

\* Every triple of trees of at most MaxSize - 1 key/value pairs each.
AssocValues == ValuesUpTo(MaxSize - 1)

InitAssoc ==
    /\ a_pc = "ready"
    /\ base \in AssocValues
    /\ overlay \in AssocValues
    /\ third \in AssocValues
    /\ left_first = NoneVal
    /\ right_first = NoneVal
    /\ m_pc = "idle"
    /\ merged = NoneVal
    /\ heap = <<>>
    /\ heap_in = <<>>
    /\ refs = [base |-> NoneVal, overlay |-> NoneVal, merged |-> NoneVal]
    /\ key_order = <<>>
    /\ ExpandIdle
    /\ StackOff

NextAssoc == MergeThree

SpecAssoc == InitAssoc /\ [][NextAssoc]_vars

InitExpand ==
    /\ e_pc = "ready"
    /\ configs \in [ConfigNames -> ConfigTrees]
    /\ configs_in = configs
    /\ config_name = MissingName
    /\ expanded = [raised |-> FALSE, value |-> NoneVal]
    /\ e_ancestry = <<>>
    /\ e_depth = 0
    /\ MergeIdle
    /\ StackOff

NextExpand ==
    \E name \in ConfigNames \cup {MissingName} : ExpandCall(name)

SpecExpand == InitExpand /\ [][NextExpand]_vars

\* The collections of the step-by-step expansion: every choice of parent,
\* two payloads.
RecurseTrees ==
    {MakeConfig(p, "absent", d) :
        p \in ParentChoices, d \in {EmptyDict, DictVal("a" :> IntVal(1))}}

InitRecurse ==
    /\ e_pc = "ready"
    /\ configs \in [ConfigNames -> RecurseTrees]
    /\ configs_in = configs
    /\ config_name = MissingName
    /\ expanded = [raised |-> FALSE, value |-> NoneVal]
    /\ e_ancestry = <<>>
    /\ e_depth = 0
    /\ MergeIdle
    /\ StackOff

NextRecurse ==
    \/ \E name \in ConfigNames \cup {MissingName} : ExpandEnter(name)
    \/ ExpandNotFound
    \/ ExpandNoParent
    \/ ExpandCircular
    \/ ExpandRecurse
    \/ ExpandMerge
    \/ ExpandReturn

SpecRecurse == InitRecurse /\ [][NextRecurse]_vars

\* The interpreter runs a call that was made: every step that can be taken
\* is taken.
SpecRecurseLive == SpecRecurse /\ WF_vars(NextRecurse)

\* The documents a layer's BaseConfig object may read: the values carry the
\* position of the slot, so that the slot a value came from can be told.
SlotNo(slot) ==
    CASE slot = "provider" -> 1
      [] slot = "platform" -> 2
      [] slot = "cluster" -> 3
      [] slot = "application" -> 4
      [] OTHER -> 5

DocShapes == {"scalar", "nested_a", "nested_b"}
OverlayShapes == {"empty", "scalar", "nested_a"}

BaseDoc(slot, shape) ==
    CASE shape = "scalar" -> DictVal("a" :> IntVal(SlotNo(slot)))
      [] shape = "nested_a" -> DictVal("a" :> DictVal("a" :> IntVal(SlotNo(slot))))
      [] OTHER -> DictVal("a" :> DictVal("b" :> IntVal(SlotNo(slot))))

OverlayDoc(slot, shape) ==
    CASE shape = "empty" -> EmptyDict
      [] shape = "scalar" -> DictVal("a" :> IntVal(10 + SlotNo(slot)))
      [] OTHER -> DictVal("a" :> DictVal("a" :> IntVal(10 + SlotNo(slot))))

LayerFileChoice(slot, doc, test) ==
    [config |-> BaseDoc(slot, doc), test_overlay |-> OverlayDoc(slot, test),
     text |-> LayerFiles(slot).text]

\* A stack right after VTDSStack.__init__, over every choice of populated
\* slots and of the documents of their layers.
InitAssemble ==
    /\ pc = "idle"
    /\ \E doc \in {d \in [Slots -> DocShapes \cup {"absent"}] :
                        d["core"] # "absent"},
          test \in [Slots -> OverlayShapes] :
          /\ layers = [s \in Slots |-> doc[s] # "absent"]
          /\ base_config = [s \in Slots |->
                               IF doc[s] # "absent"
                               THEN LayerFileChoice(s, doc[s], test[s])
                               ELSE NoneVal]
    /\ layer_api = [s \in Slots |-> NoneVal]
    /\ config = NoneVal
    /\ dirs = {}
    /\ frame = NoFrame
    /\ active = NoSlot
    /\ calls = <<>>
    /\ outcome = Return("__init__", NoneVal, NoneVal)
    /\ initialized = FALSE
    /\ init_status = "none"
    /\ MergeIdle
    /\ ExpandIdle

NextAssemble ==
    \/ GetBaseConfigText
    \/ GetBaseConfig
    \/ GetTestConfig

SpecAssemble == InitAssemble /\ [][NextAssemble]_vars

\* What yaml.safe_load() may return for a layer's base configuration file:
\* a mapping with a key of the layer's own, a mapping with a key that every
\* layer has, or None for a document that is empty.
ParsedShapes == {"own_key", "shared_key", "null"}

ParsedDoc(slot, shape) ==
    CASE shape = "own_key" -> DictVal(slot :> IntVal(SlotNo(slot)))
      [] shape = "shared_key" -> DictVal("a" :> IntVal(SlotNo(slot)))
      [] OTHER -> NoneVal

\* A stack right after VTDSStack.__init__, over every choice of populated
\* slots and of what the base configuration file of each layer parses to.
InitParsed ==
    /\ pc = "idle"
    /\ \E doc \in {d \in [Slots -> ParsedShapes \cup {"absent"}] :
                        d["core"] # "absent"} :
          /\ layers = [s \in Slots |-> doc[s] # "absent"]
          /\ base_config = [s \in Slots |->
                               IF doc[s] # "absent"
                               THEN [config |-> ParsedDoc(s, doc[s]),
                                     test_overlay |-> EmptyDict,
                                     text |-> LayerFiles(s).text]
                               ELSE NoneVal]
    /\ layer_api = [s \in Slots |-> NoneVal]
    /\ config = NoneVal
    /\ dirs = {}
    /\ frame = NoFrame
    /\ active = NoSlot
    /\ calls = <<>>
    /\ outcome = Return("__init__", NoneVal, NoneVal)
    /\ initialized = FALSE
    /\ init_status = "none"
    /\ MergeIdle
    /\ ExpandIdle

NextParsed ==
    \/ GetBaseConfig
    \/ GetTestConfig

SpecParsed == InitParsed /\ [][NextParsed]_vars


(***************************************************************************)
(* Properties of merge_configs (SpecMerge)                                 *)
(***************************************************************************)
\* The key-by-key rule of a merge of two mappings, applied again wherever
\* both values of a key are mappings.
RECURSIVE MergeRule(_, _, _)
MergeRule(b, o, r) ==
    /\ IsDict(r)
    /\ DOMAIN r.items = (DOMAIN b.items) \cup (DOMAIN o.items)
    /\ \A k \in DOMAIN r.items :
          IF k \notin DOMAIN o.items THEN r.items[k] = b.items[k]
          ELSE IF k \notin DOMAIN b.items THEN r.items[k] = o.items[k]
          ELSE IF IsDict(b.items[k]) /\ IsDict(o.items[k])
               THEN MergeRule(b.items[k], o.items[k], r.items[k])
               ELSE r.items[k] = o.items[k]

\* C1: the merge of two mappings is a mapping over the union of their keys;
\* a key of the base alone keeps the base value, a key of the overlay alone
\* takes the overlay value, a key of both takes the merge of the two values
\* when both are mappings and the overlay value otherwise.
C1_MergeKeyRule ==
    (m_pc = "done" /\ IsDict(base) /\ IsDict(overlay))
        => MergeRule(base, overlay, merged)

\* A merge that meets all three kinds of key, and a nested merge of two
\* non-empty mappings with different keys.
C1_Witness ==
    /\ m_pc = "done"
    /\ base = DictVal(("a" :> DictVal("a" :> IntVal(1))) @@ ("b" :> IntVal(1)))
    /\ overlay = DictVal("a" :> DictVal("b" :> IntVal(2)))
    /\ merged = DictVal(("a" :> DictVal(("a" :> IntVal(1)) @@ ("b" :> IntVal(2))))
                        @@ ("b" :> IntVal(1)))

\* Wherever the merge meets a non-mapping on either side, at the top or under
\* a key of both mappings, the result there is the overlay's value.
RECURSIVE OverlayWhereNotMapping(_, _, _)
OverlayWhereNotMapping(b, o, r) ==
    IF ~IsDict(b) \/ ~IsDict(o)
    THEN r = o
    ELSE /\ IsDict(r)
         /\ \A k \in (DOMAIN b.items) \cap (DOMAIN o.items) :
               /\ k \in DOMAIN r.items
               /\ OverlayWhereNotMapping(b.items[k], o.items[k], r.items[k])

\* C2: when base or overlay is not a mapping, merge_configs returns exactly
\* the overlay, at the top level and at every nested key.
C2_OverlayWhereNotMapping ==
    m_pc = "done" => OverlayWhereNotMapping(base, overlay, merged)

\* A non-mapping overlay value replaces a non-empty mapping of the base, one
\* level down.
C2_Witness ==
    /\ m_pc = "done"
    /\ IsDict(base) /\ IsDict(overlay)
    /\ \E k \in (DOMAIN base.items) \cap (DOMAIN overlay.items) :
          /\ IsDict(base.items[k])
          /\ DOMAIN base.items[k].items # {}
          /\ ~IsDict(overlay.items[k])
          /\ merged.items[k] = overlay.items[k]

(***************************************************************************)
(* Properties of expand_inheritance (SpecExpand)                           *)
(***************************************************************************)
\* The names met by following parent_class from 'name', and how the walk
\* ends: at a configuration without parent ("root"), at a name that is not
\* in the collection ("missing"), or at a name met before ("cycle").
ParentClass(cfg) ==
    IF "parent_class" \in DOMAIN cfg.items
    THEN cfg.items["parent_class"] ELSE NoneVal

RECURSIVE Lineage(_, _, _)
Lineage(cfgs, name, visited) ==
    LET chain == Append(visited, name)
    IN  IF name \notin DOMAIN cfgs
        THEN [end |-> "missing", chain |-> chain]
        ELSE LET parent == ParentClass(cfgs[name])
             IN  IF parent = NoneVal
                 THEN [end |-> "root", chain |-> chain]
                 ELSE IF \E i \in 1..Len(chain) : chain[i] = parent.s
                 THEN [end |-> "cycle", chain |-> Append(chain, parent.s)]
                 ELSE Lineage(cfgs, parent.s, chain)

\* A tree with pure_base_class defaulted to false where absent.
PureDefaulted(cfg) ==
    IF "pure_base_class" \in DOMAIN cfg.items THEN cfg
    ELSE DictVal([k \in (DOMAIN cfg.items) \cup {"pure_base_class"} |->
                    IF k = "pure_base_class" THEN BoolVal(FALSE)
                    ELSE cfg.items[k]])

\* merge_configs folded from the root of the chain (its last name) down to
\* its first name.
RECURSIVE FoldChain(_, _, _, _)
FoldChain(cfgs, chain, i, acc) ==
    IF i = 0 THEN acc
    ELSE FoldChain(cfgs, chain, i - 1,
                   merge_configs(acc, PureDefaulted(cfgs[chain[i]])))

ChainExpansion(cfgs, chain) ==
    LET n == Len(chain)
        folded == FoldChain(cfgs, chain, n - 1, PureDefaulted(cfgs[chain[n]]))
    IN  IF n > 1
        THEN DictVal([k \in (DOMAIN folded.items) \cup {"parent_class"} |->
                        IF k = "parent_class" THEN NoneVal ELSE folded.items[k]])
        ELSE folded

\* C3: for an acyclic chain c_0 <- c_1 <- ... <- c_n, expand_inheritance of
\* c_n returns the left fold of merge_configs over c_0 .. c_n (each with
\* pure_base_class defaulted), with parent_class set to None when n >= 1.
C3_ExpandIsFold ==
    (e_pc = "done" /\ Lineage(configs_in, config_name, <<>>).end = "root")
        => /\ ~expanded.raised
           /\ expanded.value =
                  ChainExpansion(configs_in,
                                 Lineage(configs_in, config_name, <<>>).chain)

\* A three-level chain whose fold depends on the order of the merges: the
\* grandparent and the child hold a mapping under "a", the parent a scalar.
C3_Witness ==
    /\ e_pc = "done"
    /\ config_name = "A"
    /\ Lineage(configs_in, "A", <<>>) = [end |-> "root", chain |-> <<"A", "B", "C">>]
    /\ configs_in["C"] =
           MakeConfig("absent", "true", DictVal("a" :> DictVal("a" :> IntVal(1))))
    /\ configs_in["B"] = MakeConfig("C", "absent", DictVal("a" :> IntVal(1)))
    /\ configs_in["A"] =
           MakeConfig("B", "absent", DictVal("a" :> DictVal("b" :> IntVal(2))))
    /\ ~expanded.raised
    /\ expanded.value =
           DictVal(("a" :> DictVal("b" :> IntVal(2)))
                   @@ ("parent_class" :> NoneVal)
                   @@ ("pure_base_class" :> BoolVal(FALSE)))

\* C4: when following parent_class from the name reaches a name already
\* visited (a configuration that is its own parent included), the call
\* raises the circular-inheritance error and returns no tree; the error
\* names the top-level configuration and the visited chain ending in the
\* repeated name.
C4_CircularRaises ==
    (e_pc = "done" /\ Lineage(configs_in, config_name, <<>>).end = "cycle")
        => LET chain == Lineage(configs_in, config_name, <<>>).chain
           IN  /\ expanded.raised
               /\ expanded.value.type = "ContextualError"
               /\ expanded.value.msg =
                      [text |-> "the inheritance chain has a circular dependency",
                       top |-> config_name,
                       on |-> chain[Len(chain)],
                       chain |-> chain]

\* A cycle that does not pass through the top-level name: A -> B -> C -> B.
C4_Witness ==
    /\ e_pc = "done"
    /\ config_name = "A"
    /\ Lineage(configs_in, "A", <<>>) =
           [end |-> "cycle", chain |-> <<"A", "B", "C", "B">>]
    /\ expanded.raised
    /\ expanded.value.msg.chain = <<"A", "B", "C", "B">>
    /\ expanded.value.msg.top = "A"

(***************************************************************************)
(* Properties of the phase sweeps and of initialize() (Spec)               *)
(***************************************************************************)
BottomUp == <<"provider", "platform", "cluster", "application">>
TopDown == <<"application", "cluster", "platform", "provider">>

Reverse(seq) == [i \in 1..Len(seq) |-> seq[Len(seq) + 1 - i]]

\* The populated slots of an order, and those of them that hold a layer API.
Populated(order) == SelectSeq(order, LAMBDA slot : layers[slot])
Holding(order) ==
    SelectSeq(order, LAMBDA slot : layers[slot] /\ layer_api[slot] # NoneVal)

\* The slots called so far, in the order of the calls.
CalledSlots == [i \in 1..Len(calls) |-> calls[i].layer]

\* A sweep of 'phase' over 'order' in which the first 'k' slots were called,
\* each once, with the phase method and nothing else.
CalledInOrder(phase, order, k) ==
    /\ Len(calls) = k
    /\ \A i \in 1..k : calls[i].layer = order[i] /\ calls[i].method = phase

SweepReturned(phase) ==
    pc = "idle" /\ outcome.op = phase /\ ~outcome.raised
SweepRaised(phase) ==
    pc = "idle" /\ outcome.op = phase /\ outcome.raised

\* C5: a sweep of consolidate, prepare, validate or deploy in which every
\* layer call succeeds, run once initialize() has completed, calls the phase
\* method of each populated non-core slot exactly once, in the order
\* provider, platform, cluster, application; unpopulated slots are skipped,
\* and a call is issued only after the one before has returned. (In any
\* state the slots called are those that hold a layer API.)
C5_BottomUpSweep ==
    \A phase \in {"consolidate", "prepare", "validate", "deploy"} :
        /\ SweepReturned(phase) =>
              /\ CalledInOrder(phase, Holding(BottomUp), Len(Holding(BottomUp)))
              /\ \A i \in 1..Len(calls) : calls[i].result = Returns
              /\ initialized =>
                    CalledInOrder(phase, Populated(BottomUp),
                                  Len(Populated(BottomUp)))
        /\ (pc = "sweep" /\ frame.op = phase) =>
              /\ CalledSlots \o [i \in 1..Len(frame.api_list) |->
                                    frame.api_list[i].layer]
                    = Holding(BottomUp)
              /\ \A i \in 1..Len(calls) :
                    calls[i].result = Pending => (i = Len(calls) /\ active = calls[i].layer)
              /\ initialized => Holding(BottomUp) = Populated(BottomUp)

\* deploy() has returned on an initialized stack with the platform slot empty:
\* provider, cluster and application were called, in that order.
C5_Witness ==
    /\ SweepReturned("deploy")
    /\ initialized
    /\ layers = [s \in Slots |-> s # "platform"]
    /\ CalledSlots = <<"provider", "cluster", "application">>

\* C6: a remove sweep in which every layer call succeeds calls remove() on
\* the populated non-core slots in the order application, cluster, platform,
\* provider: the reverse of the order in which deploy calls the same slots.
C6_RemoveTopDown ==
    SweepReturned("remove") =>
        /\ CalledInOrder("remove", Holding(TopDown), Len(Holding(TopDown)))
        /\ CalledSlots = Reverse(Holding(BottomUp))
        /\ initialized =>
              CalledInOrder("remove", Populated(TopDown), Len(Populated(TopDown)))

\* remove() has returned on an initialized stack with all four slots populated.
C6_Witness ==
    /\ SweepReturned("remove")
    /\ initialized
    /\ layers = [s \in Slots |-> TRUE]
    /\ CalledSlots = <<"application", "cluster", "platform", "provider">>

SweepOrder(phase) ==
    IF phase = "remove" THEN Holding(TopDown) ELSE Holding(BottomUp)

\* C7: when the phase method of the slot at position k of a sweep fails, the
\* slots before position k were each called once and returned, no slot after
\* position k is called, the failure is what the caller gets, and the stack
\* calls nothing else (no remove(), no compensating call) on the slots that
\* succeeded.
C7_AbortOnFirstFailure ==
    /\ \A i \in 1..Len(calls) :
          calls[i].result \notin {Pending, Returns} => i = Len(calls)
    /\ \A phase \in PhaseNames :
          SweepRaised(phase) =>
              \E k \in 1..Len(SweepOrder(phase)) :
                  /\ CalledInOrder(phase, SweepOrder(phase), k)
                  /\ \A i \in 1..(k - 1) : calls[i].result = Returns
                  /\ calls[k].result = outcome.value
                  /\ outcome.source = SweepOrder(phase)[k]

\* prepare() failed on the platform slot of a fully populated, initialized
\* stack: provider returned, cluster and application were not called.
C7_Witness ==
    /\ SweepRaised("prepare")
    /\ initialized
    /\ layers = [s \in Slots |-> TRUE]
    /\ outcome.source = "platform"
    /\ CalledSlots = <<"provider", "platform">>
    /\ calls[1].result = Returns

\* C8 as claimed: the error the caller gets from a failed sweep identifies
\* the slot of the failing layer and the phase, together with the cause.
C8_ErrorNamesSlotAndPhase ==
    \A phase \in PhaseNames :
        SweepRaised(phase) =>
            /\ {"layer", "phase", "cause"} \subseteq DOMAIN outcome.value
            /\ outcome.value.layer = outcome.source
            /\ outcome.value.phase = phase
            /\ outcome.value.cause = calls[Len(calls)].result

\* C8 as amended: the error the caller gets from a failed sweep is the error
\* the layer's phase method raised, unchanged: the stack adds neither the
\* slot nor the phase to it.
C8_LayerErrorUnchanged ==
    \A phase \in PhaseNames :
        SweepRaised(phase) =>
            /\ outcome.value = calls[Len(calls)].result
            /\ outcome.value \in LayerErrors
            /\ DOMAIN outcome.value = {"type", "msg"}

\* deploy() failed on the cluster slot: provider and platform were called
\* once each, application was not.
C8_Witness ==
    /\ SweepRaised("deploy")
    /\ layers = [s \in Slots |-> TRUE]
    /\ outcome.source = "cluster"
    /\ CalledSlots = <<"provider", "platform", "cluster">>
    /\ outcome.value = ContextualError([text |-> "layer operation failed"])

InitializeCompletes ==
    pc = "initialize" /\ pc' = "idle" /\ ~outcome'.raised

\* C10 as claimed: once initialize() has completed, get_final_config()
\* returns the same configuration in every later state, further initialize()
\* calls included.
C10_FinalConfigNeverChanges ==
    [][initialized => get_final_config' = get_final_config]_vars

\* C10 as amended: once initialize() has completed, get_final_config()
\* returns the same configuration until another initialize() call completes;
\* phase sweeps, configuration-assembly calls and initialize() calls that
\* fail leave it as it is.
C10_FinalConfigUntilReinitialized ==
    [][(initialized /\ ~InitializeCompletes)
          => get_final_config' = get_final_config]_vars

\* A second initialize(), with another configuration, failed part-way: the
\* stored configuration is still that of the first.
C10_Witness ==
    /\ initialized
    /\ pc = "idle"
    /\ outcome.op = "initialize" /\ outcome.raised
    /\ outcome.source = "cluster"
    /\ outcome.args.config # config
    /\ get_final_config = [raised |-> FALSE, value |-> config]

\* C11 as claimed: in every state in which the most recent initialize() call
\* has not run to completion (none was made, it is running, or it failed), a
\* phase sweep calls no layer phase method.
C11_NoCallUnlessInitializeCompleted ==
    init_status # "completed" => calls = <<>>

\* C11 as amended: a sweep calls the phase method of a layer only when an
\* initialize() call has built that layer's API object; as long as no
\* initialize() call was made, a sweep calls no layer. (A layer keeps its API
\* object when initialize() fails on a later layer, and a sweep calls it.)
C11_CallsOnlyInitializedLayers ==
    /\ \A i \in 1..Len(calls) :
          /\ calls[i].method \in PhaseNames
          /\ layers[calls[i].layer]
          /\ layer_api[calls[i].layer] # NoneVal
    /\ init_status = "none" =>
          /\ calls = <<>>
          /\ \A slot \in Slots : layer_api[slot] = NoneVal
    /\ (pc = "idle" /\ outcome.op \in PhaseNames /\ ~outcome.raised) =>
          CalledSlots = SweepOrder(outcome.op)

\* The first initialize() failed on the platform layer of a fully populated
\* stack, and consolidate() then called the cluster and application layers.
C11_Witness ==
    /\ init_status = "failed"
    /\ ~initialized
    /\ SweepReturned("consolidate")
    /\ layers = [s \in Slots |-> TRUE]
    /\ layer_api["platform"] = NoneVal
    /\ CalledSlots = <<"cluster", "application">>

(***************************************************************************)
(* Properties of the configuration assembly (SpecAssemble)                 *)
(***************************************************************************)
AssemblyOrder == <<"provider", "platform", "cluster", "application", "core">>

\* The parsed base configurations and the test overlays of the populated
\* slots, in the assembly order.
BaseConfigsInOrder ==
    LET slots == Populated(AssemblyOrder)
    IN  [i \in 1..Len(slots) |-> base_config[slots[i]].config]
TestOverlaysInOrder ==
    LET slots == Populated(AssemblyOrder)
    IN  [i \in 1..Len(slots) |-> base_config[slots[i]].test_overlay]

\* The left fold of merge_configs over a sequence of trees.
RECURSIVE FoldLeft(_, _)
FoldLeft(acc, trees) ==
    IF trees = <<>> THEN acc
    ELSE FoldLeft(merge_configs(acc, Head(trees)), Tail(trees))

\* What a sequence of values given to one key amounts to, key by key: the
\* last value when it is not a mapping; otherwise the mappings that follow
\* the last non-mapping, combined in the same way under each of their keys.
RECURSIVE LastWins(_)
LastWins(vals) ==
    LET n == Len(vals)
        scalars == {i \in 1..n : ~IsDict(vals[i])}
        j == IF scalars = {} THEN 0
             ELSE CHOOSE i \in scalars : \A i2 \in scalars : i2 <= i
    IN  IF j = n THEN vals[n]
        ELSE LET maps == SubSeq(vals, j + 1, n)
                 keys == UNION {DOMAIN maps[i].items : i \in 1..Len(maps)}
             IN  DictVal([k \in keys |->
                     LET having == SelectSeq(maps, LAMBDA m : k \in DOMAIN m.items)
                     IN  LastWins([i \in 1..Len(having) |-> having[i].items[k]])])

GotBaseConfig == pc = "idle" /\ outcome.op = "get_base_config"
GotTestConfig == pc = "idle" /\ outcome.op = "get_test_config"

\* C12: get_base_config() returns the left fold of merge_configs, from the
\* empty mapping, over the base configurations of the populated slots in the
\* order provider, platform, cluster, application, core: under every key the
\* non-mapping value of the latest slot wins and the mappings of the slots
\* are merged key by key.
C12_BaseConfigIsFold ==
    GotBaseConfig =>
        /\ ~outcome.raised
        /\ outcome.value = FoldLeft(EmptyDict, BaseConfigsInOrder)
        /\ outcome.value = LastWins(<<EmptyDict>> \o BaseConfigsInOrder)

\* Provider sets a scalar under "a", platform and core set mappings with
\* different keys under "a": the two mappings are merged, the scalar is gone.
C12_Witness ==
    /\ GotBaseConfig
    /\ layers = [s \in Slots |-> s \in {"provider", "platform", "core"}]
    /\ base_config["provider"].config = DictVal("a" :> IntVal(1))
    /\ base_config["platform"].config = DictVal("a" :> DictVal("a" :> IntVal(2)))
    /\ base_config["core"].config = DictVal("a" :> DictVal("b" :> IntVal(5)))
    /\ outcome.value =
           DictVal("a" :> DictVal(("a" :> IntVal(2)) @@ ("b" :> IntVal(5))))

\* C13: get_test_config() returns the left fold of merge_configs, from
\* get_base_config(), over the test overlays of the populated slots in the
\* order provider, platform, cluster, application, core: a value of any
\* slot's test overlay takes precedence over the base values of all slots
\* for the same key.
C13_TestConfigIsFold ==
    GotTestConfig =>
        /\ ~outcome.raised
        /\ outcome.value =
               FoldLeft(FoldLeft(EmptyDict, BaseConfigsInOrder),
                        TestOverlaysInOrder)
        /\ outcome.value =
               LastWins(<<EmptyDict>> \o BaseConfigsInOrder
                                      \o TestOverlaysInOrder)
        /\ \A i \in 1..Len(TestOverlaysInOrder) :
              (/\ HasKey(TestOverlaysInOrder[i], "a")
               /\ \A i2 \in (i + 1)..Len(TestOverlaysInOrder) :
                     ~HasKey(TestOverlaysInOrder[i2], "a")
               /\ ~IsDict(Item(TestOverlaysInOrder[i], "a")))
                  => Item(outcome.value, "a") = Item(TestOverlaysInOrder[i], "a")

\* The provider's test overlay sets a scalar under "a" while the core layer,
\* later in the order, sets a base value there: the overlay's value wins.
C13_Witness ==
    /\ GotTestConfig
    /\ layers = [s \in Slots |-> s \in {"provider", "core"}]
    /\ base_config["provider"].test_overlay = DictVal("a" :> IntVal(11))
    /\ base_config["core"].config = DictVal("a" :> IntVal(5))
    /\ base_config["core"].test_overlay = EmptyDict
    /\ outcome.value = DictVal("a" :> IntVal(11))

(***************************************************************************)
(* Further properties of expand_inheritance (SpecExpand)                   *)
(***************************************************************************)
\* C14: after expand_inheritance(configs, name), whether it returned a tree
\* or raised, the collection configs and every tree in it are what they were
\* before the call.
C14_ConfigsUnchanged ==
    e_pc = "done" => configs = configs_in

(***************************************************************************)
(* Further properties of merge_configs (SpecMerge)                         *)
(***************************************************************************)
\* C15: merge_configs(base, overlay) writes to no object that existed before
\* the call, so base and overlay are structurally what they were; and when
\* both are mappings the result is a mapping object made by the call, which
\* is neither base nor overlay.
C15_MergeMutatesNoInput ==
    m_pc = "done" =>
        /\ Len(heap) >= Len(heap_in)
        /\ \A addr \in 1..Len(heap_in) : heap[addr] = heap_in[addr]
        /\ Deref(heap, refs.base) = base
        /\ Deref(heap, refs.overlay) = overlay
        /\ (IsDict(base) /\ IsDict(overlay)) =>
              /\ IsDict(refs.merged)
              /\ refs.merged.addr > Len(heap_in)
              /\ refs.merged \notin {refs.base, refs.overlay}

\* Two mappings with a mapping under the same key were merged: the call made
\* two objects, one for the result and one for the merged key.
C15_Witness ==
    /\ m_pc = "done"
    /\ base = DictVal("a" :> DictVal("a" :> IntVal(1)))
    /\ overlay = DictVal("a" :> DictVal("b" :> IntVal(2)))
    /\ Len(heap) = Len(heap_in) + 2
    /\ refs.merged = Ref(Len(heap_in) + 1)
    /\ Deref(heap, refs.base) = base

\* C16: when expand_inheritance returns a tree for a configuration that does
\* not set pure_base_class, the tree has pure_base_class = False, whatever
\* its ancestors set; for a configuration that sets pure_base_class, the
\* tree has the configuration's own value.
C16_PureBaseClassNotInherited ==
    (e_pc = "done" /\ ~expanded.raised) =>
        /\ HasKey(expanded.value, "pure_base_class")
        /\ Item(expanded.value, "pure_base_class") =
               IF HasKey(configs_in[config_name], "pure_base_class")
               THEN Item(configs_in[config_name], "pure_base_class")
               ELSE BoolVal(FALSE)

\* A sets no pure_base_class, its parent B and its grandparent C both set it
\* to True: the expansion of A has False.
C16_Witness ==
    /\ e_pc = "done"
    /\ config_name = "A"
    /\ Lineage(configs_in, "A", <<>>) = [end |-> "root", chain |-> <<"A", "B", "C">>]
    /\ ~HasKey(configs_in["A"], "pure_base_class")
    /\ \A name \in {"B", "C"} :
          /\ HasKey(configs_in[name], "pure_base_class")
          /\ Item(configs_in[name], "pure_base_class") = BoolVal(TRUE)
    /\ ~expanded.raised
    /\ Item(expanded.value, "pure_base_class") = BoolVal(FALSE)

\* C17: for a configuration whose parent_class is absent or None,
\* expand_inheritance returns the configuration with pure_base_class: False
\* added when the key was absent and nothing else changed: the other keys
\* keep their values, and parent_class stays absent or None as it was.
C17_NoParentReturnsSelf ==
    (/\ e_pc = "done"
     /\ config_name \in DOMAIN configs_in
     /\ ParentClass(configs_in[config_name]) = NoneVal) =>
        /\ ~expanded.raised
        /\ DOMAIN expanded.value.items =
               (DOMAIN configs_in[config_name].items) \cup {"pure_base_class"}
        /\ \A k \in DOMAIN configs_in[config_name].items :
               expanded.value.items[k] = configs_in[config_name].items[k]
        /\ ~HasKey(configs_in[config_name], "pure_base_class") =>
               Item(expanded.value, "pure_base_class") = BoolVal(FALSE)

\* A holds parent_class: None, a nested payload and no pure_base_class.
C17_Witness ==
    /\ e_pc = "done"
    /\ config_name = "A"
    /\ configs_in["A"] =
           MakeConfig("none", "absent", DictVal("a" :> DictVal("b" :> IntVal(2))))
    /\ ~expanded.raised
    /\ expanded.value =
           DictVal(("a" :> DictVal("b" :> IntVal(2)))
                   @@ ("parent_class" :> NoneVal)
                   @@ ("pure_base_class" :> BoolVal(FALSE)))

\* C18: when the name asked for, or a parent_class met while following the
\* chain from it, is not a key of the collection, expand_inheritance raises
\* the ContextualError that names the missing configuration and lists the
\* keys of the collection; it is the same error in both cases.
C18_MissingNameRaises ==
    (e_pc = "done" /\ Lineage(configs_in, config_name, <<>>).end = "missing") =>
        LET chain == Lineage(configs_in, config_name, <<>>).chain
        IN  /\ expanded.raised
            /\ expanded.value.type = "ContextualError"
            /\ expanded.value.msg =
                   [text |-> "cannot find config sub-tree",
                    name |-> chain[Len(chain)],
                    keys |-> DOMAIN configs_in]

\* The missing name is met two levels up: A -> B -> Z.
C18_Witness ==
    /\ e_pc = "done"
    /\ config_name = "A"
    /\ Lineage(configs_in, "A", <<>>) =
           [end |-> "missing", chain |-> <<"A", "B", MissingName>>]
    /\ expanded.raised
    /\ expanded.value.msg.name = MissingName
    /\ expanded.value.msg.keys = ConfigNames

(***************************************************************************)
(* Algebraic properties of merge_configs (SpecAssoc, SpecMerge)            *)
(***************************************************************************)
\* Three mappings that meet under a key where the first holds a mapping, the
\* second a value that is no mapping, and the third a mapping that lacks a
\* key of the first's.
MappingScalarMapping(a, b, c) ==
    /\ IsDict(a) /\ IsDict(b) /\ IsDict(c)
    /\ \E k \in (DOMAIN a.items) \cap (DOMAIN b.items) \cap (DOMAIN c.items) :
          /\ IsDict(a.items[k])
          /\ ~IsDict(b.items[k])
          /\ IsDict(c.items[k])
          /\ ~((DOMAIN a.items[k].items) \subseteq (DOMAIN c.items[k].items))

\* C19: merge_configs is not associative: there are trees a, b, c for which
\* merging a with b and then c differs from merging a with the merge of b
\* and c; it is so for every triple of mappings in which, under one key, a
\* holds a mapping, b a non-mapping and c a mapping without some key of a's
\* (merged from the left b's value hides a's mapping, merged from the right
\* c's mapping hides b's value).
C19_NotAssociative ==
    (a_pc = "done" /\ MappingScalarMapping(base, overlay, third)) =>
        left_first # right_first

\* a = {a: {a: 1}}, b = {a: 1}, c = {a: {b: 2}}: from the left {a: {b: 2}},
\* from the right {a: {a: 1, b: 2}}.
C19_Witness ==
    /\ a_pc = "done"
    /\ base = DictVal("a" :> DictVal("a" :> IntVal(1)))
    /\ overlay = DictVal("a" :> IntVal(1))
    /\ third = DictVal("a" :> DictVal("b" :> IntVal(2)))
    /\ left_first = DictVal("a" :> DictVal("b" :> IntVal(2)))
    /\ right_first =
           DictVal("a" :> DictVal(("a" :> IntVal(1)) @@ ("b" :> IntVal(2))))
    /\ left_first # right_first

\* C20: merge_configs(a, a) is structurally equal to a for every tree a; and
\* the result is a function of the structure of the arguments alone: it is
\* the same tree whether equal arguments are one object or two, and whatever
\* the order in which the dicts yield their items.
C20_IdempotentDeterministic ==
    m_pc = "done" =>
        /\ base = overlay => merged = base
        /\ Deref(heap, refs.merged) = merged
        /\ Deref(heap_in, refs.base) = Deref(heap_in, refs.overlay) =>
              Deref(heap, refs.merged) = Deref(heap_in, refs.base)

\* A tree with a nested mapping and a scalar merged with itself, the two
\* arguments being two objects.
C20_Witness ==
    /\ m_pc = "done"
    /\ base = DictVal(("a" :> DictVal("b" :> IntVal(2))) @@ ("b" :> IntVal(1)))
    /\ overlay = base
    /\ refs.base # refs.overlay
    /\ merged = base
    /\ Deref(heap, refs.merged) = base

(***************************************************************************)
(* Further properties of initialize() and of the slots (Spec)              *)
(***************************************************************************)
\* The build sub-directory of a slot under a build directory.
SlotDir(build_dir, slot) == <<build_dir, slot>>

InitializeReturned == pc = "idle" /\ outcome.op = "initialize" /\ ~outcome.raised
InitializeRaised == pc = "idle" /\ outcome.op = "initialize" /\ outcome.raised
MakedirsFailed ==
    /\ InitializeRaised
    /\ outcome.source = "stack"
    /\ outcome.value.msg.text = "failed to create build directory for layer"

\* C21: every build sub-directory is named after a populated slot, none
\* after an unpopulated one; a slot's sub-directory exists whenever the slot
\* holds a layer API or its layer's construction was tried; initialize()
\* passes a populated slot only once its sub-directory exists, so that on
\* completion every populated slot has one; and when the creation of a
\* slot's directory fails, initialize() raises and the slot holds no API.
C21_BuildDirBeforeLayer ==
    /\ \A d \in dirs : \E slot \in Slots : layers[slot] /\ d[2] = slot
    /\ \A slot \in Slots :
          layer_api[slot] # NoneVal => layer_api[slot].build_dir \in dirs
    /\ pc = "initialize" =>
          \A i \in 1..(frame.next - 1) :
              layers[InitOrder[i]] =>
                  SlotDir(frame.build_dir, InitOrder[i]) \in dirs
    /\ InitializeReturned =>
          \A slot \in Slots :
              layers[slot] <=> SlotDir(outcome.args.build_dir, slot) \in dirs
    /\ (InitializeRaised /\ outcome.source \in Slots) =>
          SlotDir(outcome.args.build_dir, outcome.source) \in dirs
    /\ MakedirsFailed =>
          /\ outcome.value.type = "ContextualError"
          /\ layer_api[outcome.value.msg.name] = NoneVal
          /\ outcome.value.msg.path \notin dirs

\* With platform unpopulated, the directory of the cluster slot could not be
\* made: core and application have theirs, cluster holds no API, and there
\* is no directory for platform or provider.
C21_Witness ==
    /\ MakedirsFailed
    /\ layers = [s \in Slots |-> s # "platform"]
    /\ outcome.value.msg.name = "cluster"
    /\ dirs = {SlotDir("build", "core"), SlotDir("build", "application")}
    /\ layer_api["application"] # NoneVal
    /\ layer_api["cluster"] = NoneVal

\* The populated non-core slots all hold the API object that the layer's
\* LayerAPI class builds from cfg and the slot's build sub-directory.
AllBuiltWith(cfg, build_dir) ==
    \A slot \in Slots :
        layer_api[slot] =
            IF layers[slot] /\ slot # "core"
            THEN LayerAPI(slot, cfg, SlotDir(build_dir, slot))
            ELSE NoneVal

\* C22: an initialize(cfg, build_dir) call that meets no failure ends, also
\* when it follows a failed initialize() and finds build sub-directories in
\* place, with every populated non-core slot holding the API built from cfg
\* and with get_final_config() returning cfg, as a first initialize() does;
\* and makedirs never fails for a sub-directory that exists.
C22_RetryInitializeAsFirst ==
    /\ (pc = "initialize" /\ frame.next > Len(InitOrder)) =>
          AllBuiltWith(frame.config, frame.build_dir)
    /\ InitializeReturned =>
          /\ AllBuiltWith(outcome.args.config, outcome.args.build_dir)
          /\ get_final_config = [raised |-> FALSE, value |-> outcome.args.config]
    /\ MakedirsFailed => outcome.value.msg.path \notin dirs

\* An initialize() call is about to return after going through all five
\* slots of a fully populated stack; the call before it was an initialize()
\* with another configuration that failed on the platform layer, leaving all
\* five sub-directories but those of platform and provider in place.
C22_Witness ==
    /\ pc = "initialize"
    /\ frame.next > Len(InitOrder)
    /\ outcome.op = "initialize" /\ outcome.raised
    /\ outcome.source = "platform"
    /\ outcome.args.config # frame.config
    /\ ~initialized
    /\ layers = [s \in Slots |-> TRUE]
    /\ AllBuiltWith(frame.config, frame.build_dir)

\* C23: the core layer never holds a layer API, and no sweep of consolidate,
\* prepare, validate, deploy or remove has the core layer among the layers
\* it calls; its base configuration, its text and its test overlay are the
\* last ones taken by get_base_config(), get_base_config_text() and
\* get_test_config().
C23_CoreOnlyInAssembly ==
    /\ layers["core"]
    /\ layer_api["core"] = NoneVal
    /\ active # "core"
    /\ \A i \in 1..Len(calls) : calls[i].layer # "core"
    /\ pc = "sweep" =>
          \A i \in 1..Len(frame.api_list) : frame.api_list[i].layer # "core"
    /\ GotBaseConfig =>
          outcome.value =
              merge_configs(
                  FoldLeft(EmptyDict,
                           SubSeq(BaseConfigsInOrder, 1,
                                  Len(BaseConfigsInOrder) - 1)),
                  base_config["core"].config)
    /\ GotTestConfig =>
          outcome.value =
              merge_configs(
                  FoldLeft(FoldLeft(EmptyDict, BaseConfigsInOrder),
                           SubSeq(TestOverlaysInOrder, 1,
                                  Len(TestOverlaysInOrder) - 1)),
                  base_config["core"].test_overlay)
    /\ (pc = "idle" /\ outcome.op = "get_base_config_text") =>
          /\ Len(outcome.value) >= 2
          /\ SubSeq(outcome.value, Len(outcome.value) - 1, Len(outcome.value))
                 = base_config["core"].text \o <<"\n">>

\* deploy() has returned on a fully populated stack after initialize() made
\* the core layer's build directory: four layers were called, core was not.
C23_Witness ==
    /\ SweepReturned("deploy")
    /\ initialized
    /\ layers = [s \in Slots |-> TRUE]
    /\ SlotDir("build", "core") \in dirs
    /\ layer_api["core"] = NoneVal
    /\ Len(calls) = 4
    /\ \A i \in 1..Len(calls) : calls[i].layer # "core"

(***************************************************************************)
(* Properties of the construction of the stack (SpecResolve)               *)
(***************************************************************************)
\* A module name that stands for no layer, and one that resolves to a layer
\* of the given kind.
NoName(name) == name = NoneVal \/ name = StrVal("")
Resolvable(name, core) ==
    /\ ~NoName(name)
    /\ name.s \in (IF core THEN {"layer_mod", "vtds_core", "no_api_mod"}
                   ELSE {"layer_mod"})

\* The name a slot is resolved from: the default core module for a core
\* slot without name.
ResolvedName(names, slot) ==
    IF slot = "core" /\ NoName(names[slot]) THEN StrVal("vtds_core")
    ELSE names[slot]

ConstructReturned == pc = "idle" /\ outcome.op = "__init__" /\ ~outcome.raised
ConstructRaised == pc = "failed"

\* C24: a slot given no module name (None or "") is resolved to an empty
\* slot without error (the core slot to the default core module); an empty
\* slot gets no build directory and no layer API from initialize(), is never
\* called by a sweep, and adds nothing to the assembled configurations; and
\* a name that cannot be imported, or whose module lacks LayerAPI or
\* BaseConfig, makes the construction raise a ContextualError that carries
\* the name and the ImportError or AttributeError behind it.
C24_ResolveSlots ==
    /\ ConstructReturned =>
          /\ \A slot \in Slots \ {"core"} :
                IF NoName(outcome.args[slot]) THEN ~layers[slot]
                ELSE layers[slot] /\ Resolvable(outcome.args[slot], FALSE)
          /\ layers["core"]
          /\ Resolvable(ResolvedName(outcome.args, "core"), TRUE)
    /\ ConstructRaised =>
          /\ outcome.op = "__init__" /\ outcome.raised
          /\ outcome.value.type = "ContextualError"
          /\ ~NoName(outcome.args[outcome.source])
          /\ ~Resolvable(outcome.args[outcome.source], outcome.source = "core")
          /\ outcome.value.msg.name = outcome.args[outcome.source].s
          /\ outcome.value.msg.cause =
                 IF outcome.value.msg.name = "missing_mod" THEN "ImportError"
                 ELSE "AttributeError"
          /\ \A slot \in Slots : ~layers[slot]
    /\ (pc # "new" /\ outcome.op = "__init__") =>
          (outcome.raised <=>
              \E slot \in Slots :
                  /\ ~NoName(outcome.args[slot])
                  /\ ~Resolvable(outcome.args[slot], slot = "core"))
    /\ \A slot \in Slots :
          ~layers[slot] =>
              /\ layer_api[slot] = NoneVal
              /\ base_config[slot] = NoneVal
              /\ \A d \in dirs : d[2] # slot
              /\ active # slot
              /\ \A i \in 1..Len(calls) : calls[i].layer # slot
    /\ GotBaseConfig => outcome.value = FoldLeft(EmptyDict, BaseConfigsInOrder)
    /\ GotTestConfig =>
          outcome.value = FoldLeft(FoldLeft(EmptyDict, BaseConfigsInOrder),
                                   TestOverlaysInOrder)
    /\ InitializeReturned =>
          \A slot \in Slots :
              layers[slot] <=> SlotDir(outcome.args.build_dir, slot) \in dirs

\* The application slot was given "" and the cluster slot a module without
\* LayerAPI: the construction raised the ContextualError for the cluster
\* module, the empty application slot having raised nothing.
C24_Witness ==
    /\ ConstructRaised
    /\ outcome.args["application"] = StrVal("")
    /\ outcome.args["cluster"] = StrVal("no_api_mod")
    /\ outcome.source = "cluster"
    /\ outcome.value.msg.name = "no_api_mod"
    /\ outcome.value.msg.cause = "AttributeError"

(***************************************************************************)
(* Further properties of the configuration assembly (SpecAssemble)         *)
(***************************************************************************)
GotBaseConfigText == pc = "idle" /\ outcome.op = "get_base_config_text"

\* The texts of the given slots, each followed by a line break.
RECURSIVE TextsOf(_)
TextsOf(slots) ==
    IF slots = <<>> THEN <<>>
    ELSE base_config[Head(slots)].text \o <<"\n">> \o TextsOf(Tail(slots))

\* C25: get_base_config_text() returns the base-configuration texts of the
\* populated slots in the order provider, platform, cluster, application,
\* core, each text followed by one line break, the last one included.
C25_BaseConfigText ==
    GotBaseConfigText =>
        /\ ~outcome.raised
        /\ outcome.value = TextsOf(Populated(AssemblyOrder))
        /\ Len(outcome.value) = 2 * Len(Populated(AssemblyOrder))
        /\ \A i \in 1..Len(Populated(AssemblyOrder)) :
              /\ <<outcome.value[2 * i - 1]>> =
                     base_config[Populated(AssemblyOrder)[i]].text
              /\ outcome.value[2 * i] = "\n"

\* Platform, application and core are populated: their three texts in that
\* order, a line break after each.
C25_Witness ==
    /\ GotBaseConfigText
    /\ layers = [s \in Slots |-> s \in {"platform", "application", "core"}]
    /\ outcome.value = <<"platform.yaml", "\n", "application.yaml", "\n",
                         "core.yaml", "\n">>

(***************************************************************************)
(* The stored configuration and the layer APIs (Spec)                      *)
(***************************************************************************)
\* The slot on which a failed initialize() stopped, and its place in the
\* order of initialization.
FailedSlot ==
    IF outcome.source = "stack" THEN outcome.value.msg.name ELSE outcome.source
PlaceOf(slot) == CHOOSE i \in 1..Len(InitOrder) : InitOrder[i] = slot

NonCorePopulated == {slot \in Slots : layers[slot] /\ slot # "core"}

\* C26 as claimed: in every state in which the caller's get_final_config()
\* returns a configuration cfg, every populated non-core slot holds a layer
\* API that was constructed with cfg.
C26_ApisBuiltFromFinalConfig ==
    (pc = "idle" /\ ~get_final_config.raised) =>
        \A slot \in NonCorePopulated :
            /\ layer_api[slot] # NoneVal
            /\ layer_api[slot].config = get_final_config.value

\* C26 as amended: in every state in which get_final_config() returns a
\* configuration cfg, every populated non-core slot holds a layer API, and
\* those APIs were constructed with cfg as long as no initialize() call was
\* started after the one that stored cfg; when a later initialize(cfg2)
\* fails part-way, the slots it initialized before the failure hold APIs
\* built from cfg2 while get_final_config() still returns cfg.
C26_ApisBuiltFromLastInitialize ==
    /\ ~get_final_config.raised =>
          \A slot \in NonCorePopulated : layer_api[slot] # NoneVal
    /\ init_status = "completed" =>
          /\ ~get_final_config.raised
          /\ \A slot \in NonCorePopulated :
                layer_api[slot].config = get_final_config.value
    /\ (InitializeRaised /\ initialized) =>
          \A slot \in NonCorePopulated :
              PlaceOf(slot) < PlaceOf(FailedSlot) =>
                  layer_api[slot].config = outcome.args.config

\* initialize() completed with one configuration; a second initialize() with
\* another configuration failed on the platform layer: application and
\* cluster hold APIs built from the second configuration, platform and
\* provider from the first, which get_final_config() returns.
C26_Witness ==
    /\ InitializeRaised
    /\ initialized
    /\ layers = [s \in Slots |-> TRUE]
    /\ FailedSlot = "platform"
    /\ outcome.args.config # config
    /\ get_final_config = [raised |-> FALSE, value |-> config]
    /\ layer_api["application"].config = outcome.args.config
    /\ layer_api["cluster"].config = outcome.args.config
    /\ layer_api["platform"].config = config
    /\ layer_api["provider"].config = config

\* C27: on a stack on which initialize() was never called, consolidate(),
\* prepare(), validate(), deploy() and remove() call no layer method and
\* raise nothing: no slot holds a layer API, the sweep goes over an empty
\* list and returns, and the stack is left as it was constructed.
C27_SweepBeforeInitializeIsNoOp ==
    init_status = "none" =>
        /\ \A slot \in Slots : layer_api[slot] = NoneVal
        /\ calls = <<>>
        /\ active = NoSlot
        /\ pc = "sweep" => frame.api_list = <<>>
        /\ (pc = "idle" /\ outcome.op \in PhaseNames) =>
              /\ ~outcome.raised
              /\ outcome.value = NoneVal
        /\ config = NoneVal
        /\ dirs = {}

\* remove() has returned on a fully populated stack that was never
\* initialized, without a call to any layer.
C27_Witness ==
    /\ init_status = "none"
    /\ SweepReturned("remove")
    /\ layers = [s \in Slots |-> TRUE]
    /\ calls = <<>>

\* The slots of the list of APIs that a sweep is about to go over.
SlotsOf(api_list) == [i \in 1..Len(api_list) |-> api_list[i].layer]

\* C28: initialize() goes through the five slots in the order core,
\* application, cluster, platform, provider and stores the configuration
\* only when it returns, after the last slot. A step of initialize() never
\* touches the API object of a slot later in the order than the one it is
\* at; when it fails, the stored configuration is what it was, and the
\* populated slots earlier in the order hold the API object built from the
\* arguments of this call. A phase sweep that starts goes over exactly the
\* slots that hold a layer API.
C28_ConfigStoredLast ==
    [][/\ pc = "initialize" =>
             /\ \A i \in 1..Len(InitOrder) :
                   i > frame.next =>
                       layer_api'[InitOrder[i]] = layer_api[InitOrder[i]]
             /\ config' # config =>
                   /\ frame.next > Len(InitOrder)
                   /\ pc' = "idle"
                   /\ ~outcome'.raised
                   /\ config' = frame.config
             /\ (pc' = "idle" /\ outcome'.raised) =>
                   /\ config' = config
                   /\ \A i \in 1..(frame.next - 1) :
                         (layers[InitOrder[i]] /\ InitOrder[i] # "core") =>
                             layer_api'[InitOrder[i]] =
                                 LayerAPI(InitOrder[i], frame.config,
                                          path_join(frame.build_dir, InitOrder[i]))
       /\ (pc = "idle" /\ pc' = "sweep") =>
             SlotsOf(frame'.api_list) = SweepOrder(frame'.op)
      ]_vars

\* A second initialize(), with another configuration, failed on the platform
\* layer of a fully populated stack: the application and cluster layers hold
\* the API built from the new configuration, the platform and provider
\* layers the one built from the stored configuration, and deploy() then
\* called all four.
C28_Witness ==
    /\ init_status = "failed"
    /\ initialized
    /\ SweepReturned("deploy")
    /\ layers = [s \in Slots |-> TRUE]
    /\ layer_api["provider"].config = config
    /\ layer_api["platform"].config = config
    /\ layer_api["cluster"].config # config
    /\ layer_api["application"].config # config
    /\ CalledSlots = <<"provider", "platform", "cluster", "application">>

(***************************************************************************)
(* Base configuration files that do not hold a mapping (SpecParsed)        *)
(***************************************************************************)
\* C29: what get_base_config() returns has every top-level key of the base
\* configuration of every populated slot, also when the base configuration
\* of some slot is not a mapping (an empty document, parsed to None).
C29_NoContributionDropped ==
    GotBaseConfig =>
        /\ IsDict(outcome.value)
        /\ \A slot \in Slots :
              (layers[slot] /\ IsDict(base_config[slot].config)) =>
                  DOMAIN base_config[slot].config.items
                      \subseteq DOMAIN outcome.value.items

(***************************************************************************)
(* Termination of expand_inheritance (SpecRecurseLive)                     *)
(***************************************************************************)
\* The names of the collection that are not yet in the ancestry list.
NamesLeft ==
    {n \in DOMAIN configs : \A i \in 1..Len(e_ancestry) : e_ancestry[i] # n}

\* C30: a call of expand_inheritance ends, for every collection and every
\* name. No name is entered twice, so the recursive calls are at most as
\* many as the names of the collection (the depth of the call stack stays
\* below the interpreter's limit), and the call then returns a tree or
\* raises the error of a name that was not found or of a circular chain.
C30_ExpandTerminates ==
    /\ [](/\ \A i, j \in 1..Len(e_ancestry) :
                e_ancestry[i] = e_ancestry[j] => i = j
          /\ Len(e_ancestry) - 1 <= Cardinality(DOMAIN configs)
          /\ Len(e_ancestry) < RecursionLimit
          /\ e_depth <= Len(e_ancestry)
          /\ e_pc = "done" =>
                IF expanded.raised
                THEN /\ expanded.value.type = "ContextualError"
                     /\ expanded.value.msg.text \in
                            {"cannot find config sub-tree",
                             "the inheritance chain has a circular dependency"}
                ELSE IsDict(expanded.value))
    /\ (e_pc = "call") ~> (e_pc = "done")

\* A call for a name whose chain of parents runs through every name of the
\* collection has returned a tree, after one recursive call for each of the
\* other names.
C30_Witness ==
    /\ e_pc = "done"
    /\ ~expanded.raised
    /\ IsDict(expanded.value)
    /\ Len(e_ancestry) = Cardinality(DOMAIN configs)
    /\ NamesLeft = {}

====
